---- MODULE Spec2Model ----
(***************************************************************************)
(* Model of sequenceMatching.ts: quantified sequence items, match          *)
(* trackers, the accumulators of matchSequence and                         *)
(* matchAccumulateSequence, and the recursive backtracking traversal       *)
(* traverseAccumulateSequence.step.                                        *)
(*                                                                         *)
(* Indices are 0-based as in the source; At(seq, k) reads a 0-based        *)
(* position of a TLA+ sequence.  An optional value (maxMatches?: number)   *)
(* is a set with at most one element, {} being undefined.  The record      *)
(* Undefined stands for an undefined tracker or an undefined result.       *)
(* A SequenceItem carries a field ref that stands for the identity of the  *)
(* JavaScript object, so that record equality models ===.                  *)
(* getCommon is a table from <<dest key, src key>> to the common item it   *)
(* returns (or Undefined); the key of an item is its ref, the key of an    *)
(* undefined argument is 0.                                                *)
(***************************************************************************)
EXTENDS Integers, Sequences, FiniteSets

VARIABLES
    destSequence,       \* argument destSequence: SequenceItem<DestType>[]
    srcSequence,        \* argument srcSequence: SequenceItem<SrcType>[]
    destMatchesSrc,     \* argument destMatchesSrc, as the set of pairs it accepts
    matchSequenceResult,            \* what matchSequence returned
    matchAccumulateSequenceResult,  \* what matchAccumulateSequence returned
    getCommon,          \* argument getCommon, as a table over pairs of item keys
    getCommonSequenceResult,        \* what getCommonSequence returned
    memory,             \* the heap of the caller and its calls of the queries (SpecHeap)
    accumulation,       \* an accumulator under a sequence of calls of accumulate
    tracking,           \* a SequenceItemMatchTracker under calls of matched
    tupleAssignment     \* a call of assignTupleTypeArgsInternal: arguments and result

vars == <<destSequence, srcSequence, destMatchesSrc,
          matchSequenceResult, matchAccumulateSequenceResult,
          getCommon, getCommonSequenceResult, memory,
          accumulation, tracking, tupleAssignment>>

\* the state of the callers of single methods, which the callers of the
\* queries leave alone
units == <<accumulation, tracking, tupleAssignment>>

Undefined == [undefined |-> TRUE]

NotCalled == [notCalled |-> TRUE]

NoUnits ==
    /\ accumulation = NotCalled
    /\ tracking = NotCalled
    /\ tupleAssignment = NotCalled

At(seq, k) == seq[k + 1]

(***************************************************************************)
(* SequenceItem and SequenceItemMatchTracker                               *)
(***************************************************************************)
SequenceItem(ref, item, minMatches, maxMatches) ==
    [ref |-> ref, item |-> item, minMatches |-> minMatches, maxMatches |-> maxMatches]

isRepeated(item) ==
    \/ item.maxMatches = {}
    \/ \E m \in item.maxMatches : m > 1
    \/ (item.maxMatches = {1} /\ item.minMatches = 0)

SequenceItemMatchTracker(sequenceItem, matchesCounter) ==
    [sequenceItem |-> sequenceItem, matchesCounter |-> matchesCounter]

\* hasMoreMatches with <= for <: one match too many
hasMoreMatchesOffByOne(t) ==
    \/ t.sequenceItem.maxMatches = {}
    \/ t.sequenceItem.maxMatches = {0}
    \/ \E m \in t.sequenceItem.maxMatches : t.matchesCounter <= m

\* !this.sequenceItem.maxMatches is true for undefined and for 0
hasMoreMatches(t) ==
    \/ t.sequenceItem.maxMatches = {}
    \/ t.sequenceItem.maxMatches = {0}
    \/ \E m \in t.sequenceItem.maxMatches : t.matchesCounter < m

\* matched that returns the tracker with its counter as it was
matchedWithoutCounting(t) == SequenceItemMatchTracker(t.sequenceItem, t.matchesCounter)

matched(t) == SequenceItemMatchTracker(t.sequenceItem, t.matchesCounter + 1)

\* isSkippable that ignores minMatches
isSkippableAlways(t) == t.sequenceItem.minMatches <= t.sequenceItem.minMatches

isSkippable(t) == t.sequenceItem.minMatches <= 0

\* a_i?.matched()
matchedOpt(t) == IF t = Undefined THEN Undefined ELSE matched(t)

\* destSequence.map((destItem) => new SequenceItemMatchTracker(destItem))
Trackers(sequence) ==
    [k \in 1..Len(sequence) |-> SequenceItemMatchTracker(sequence[k], 0)]

(***************************************************************************)
(* Accumulators.  acc.kind names the class, acc.acc is its field acc.      *)
(***************************************************************************)
MatchSequenceAccumulator == [kind |-> "MatchSequenceAccumulator", acc |-> FALSE]

MatchAccumulateSequenceAccumulator ==
    [kind |-> "MatchAccumulateSequenceAccumulator", acc |-> <<>>]

\* matches without the call of destMatchesSrc
matchesIgnoringPredicate(acc, destItem, srcItem) ==
    \/ (destItem = Undefined /\ srcItem = Undefined)
    \/ (/\ destItem # Undefined
        /\ srcItem # Undefined
        /\ hasMoreMatches(destItem)
        /\ hasMoreMatches(srcItem))
    \/ (destItem = Undefined /\ srcItem # Undefined /\ isSkippable(srcItem))
    \/ (destItem # Undefined /\ srcItem = Undefined /\ isSkippable(destItem))

\* matches of MatchSequenceAccumulator and of MatchAccumulateSequenceAccumulator
\* (the two bodies are the same)
matches(acc, destItem, srcItem) ==
    \/ (destItem = Undefined /\ srcItem = Undefined)
    \/ (/\ destItem # Undefined
        /\ srcItem # Undefined
        /\ hasMoreMatches(destItem)
        /\ hasMoreMatches(srcItem)
        /\ <<destItem.sequenceItem.item, srcItem.sequenceItem.item>> \in destMatchesSrc)
    \/ (destItem = Undefined /\ srcItem # Undefined /\ isSkippable(srcItem))
    \/ (destItem # Undefined /\ srcItem = Undefined /\ isSkippable(destItem))

DestItemMatches(destItem, matchedSrcItems) ==
    [destItem |-> destItem, matchedSrcItems |-> matchedSrcItems]

\* MatchSequenceAccumulator.accumulate
accumulateMatch(acc, dest, src) ==
    IF matches(acc, dest, src) THEN [acc EXCEPT !.acc = TRUE] ELSE acc

\* accumulate that starts a new group for every pair instead of extending the
\* last group of the same dest item
accumulateGroupsNeverMerging(acc, destType, srcType) ==
    LET groups == acc.acc
        n == Len(groups)
    IN  IF destType # Undefined /\ srcType # Undefined THEN
            [acc EXCEPT !.acc =
                Append(groups, DestItemMatches(destType.sequenceItem,
                                               <<srcType.sequenceItem>>))]
        ELSE IF destType # Undefined /\ srcType = Undefined THEN
            IF n = 0 \/ destType.sequenceItem # groups[n].destItem
            THEN [acc EXCEPT !.acc =
                    Append(groups, DestItemMatches(destType.sequenceItem, <<>>))]
            ELSE acc
        ELSE acc

\* accumulate that appends a group <dest, []> for a dest folded against
\* undefined without looking at the last group
accumulateGroupsAlwaysEmptyGroup(acc, destType, srcType) ==
    LET groups == acc.acc
        n == Len(groups)
    IN  IF destType # Undefined /\ srcType # Undefined THEN
            IF n > 0 /\ destType.sequenceItem = groups[n].destItem THEN
                [acc EXCEPT !.acc[n].matchedSrcItems =
                    Append(groups[n].matchedSrcItems, srcType.sequenceItem)]
            ELSE
                [acc EXCEPT !.acc =
                    Append(groups, DestItemMatches(destType.sequenceItem,
                                                   <<srcType.sequenceItem>>))]
        ELSE IF destType # Undefined /\ srcType = Undefined THEN
            [acc EXCEPT !.acc = Append(groups, DestItemMatches(destType.sequenceItem, <<>>))]
        ELSE acc

\* MatchAccumulateSequenceAccumulator.accumulate
accumulateGroups(acc, destType, srcType) ==
    LET groups == acc.acc
        n == Len(groups)
    IN  IF destType # Undefined /\ srcType # Undefined THEN
            IF n = 0 THEN
                [acc EXCEPT !.acc =
                    <<DestItemMatches(destType.sequenceItem, <<srcType.sequenceItem>>)>>]
            ELSE IF destType.sequenceItem = groups[n].destItem THEN
                [acc EXCEPT !.acc[n].matchedSrcItems =
                    Append(groups[n].matchedSrcItems, srcType.sequenceItem)]
            ELSE
                [acc EXCEPT !.acc =
                    Append(groups, DestItemMatches(destType.sequenceItem,
                                                   <<srcType.sequenceItem>>))]
        ELSE IF destType = Undefined /\ srcType # Undefined THEN
            acc
        ELSE IF destType # Undefined /\ srcType = Undefined THEN
            IF n = 0 THEN
                [acc EXCEPT !.acc = <<DestItemMatches(destType.sequenceItem, <<>>)>>]
            ELSE IF destType.sequenceItem # groups[n].destItem THEN
                [acc EXCEPT !.acc =
                    Append(groups, DestItemMatches(destType.sequenceItem, <<>>))]
            ELSE acc
        ELSE acc

CommonSequenceAccumulator == [kind |-> "CommonSequenceAccumulator", acc |-> <<>>]

\* getCommon(dest?.sequenceItem, src?.sequenceItem)
commonOf(dest, src) ==
    getCommon[<<IF dest = Undefined THEN 0 ELSE dest.sequenceItem.ref,
                IF src = Undefined THEN 0 ELSE src.sequenceItem.ref>>]

\* CommonSequenceAccumulator.matches
matchesCommon(acc, dest, src) == commonOf(dest, src) # Undefined

\* accumulate that pushes every common item, a repetition of the last entry
\* included
accumulateCommonAlwaysPushing(acc, dest, src) ==
    LET common == commonOf(dest, src)
    IN  IF common # Undefined THEN [acc EXCEPT !.acc = Append(acc.acc, common)] ELSE acc

\* CommonSequenceAccumulator.accumulate
accumulateCommon(acc, dest, src) ==
    LET common == commonOf(dest, src)
        n == Len(acc.acc)
    IN  IF /\ common # Undefined
           /\ \/ n = 0
              \/ ~isRepeated(common)
              \/ ~isRepeated(acc.acc[n])
              \/ acc.acc[n] # common
        THEN [acc EXCEPT !.acc = Append(acc.acc, common)]
        ELSE acc

\* acc.matches(dest, src), dispatched on the class of acc
accumulatorMatches(acc, dest, src) ==
    IF acc.kind = "CommonSequenceAccumulator"
    THEN matchesCommon(acc, dest, src)
    ELSE matches(acc, dest, src)

accumulate(acc, dest, src) ==
    IF acc.kind = "MatchSequenceAccumulator" THEN accumulateMatch(acc, dest, src)
    ELSE IF acc.kind = "CommonSequenceAccumulator" THEN accumulateCommon(acc, dest, src)
    ELSE accumulateGroups(acc, dest, src)

(***************************************************************************)
(* traverseAccumulateSequence                                              *)
(***************************************************************************)
NextStep(index, item) == [index |-> index, item |-> item]

\* getNextStepsForItem without its for loop: no step beyond i + 1
skipStepsNone(k, t_sequence) == SubSeq(<<NextStep(k, Undefined)>>, 1, 0)

\* the for loop of getNextStepsForItem without its test of isSkippable
RECURSIVE skipSteps(_, _)
skipStepsOverAny(k, t_sequence) ==
    IF k < Len(t_sequence) - 1
    THEN <<NextStep(k + 1, At(t_sequence, k + 1))>> \o skipSteps(k + 1, t_sequence)
    ELSE <<>>

\* the for loop of getNextStepsForItem running up to the last item included:
\* for (let k = i + 1; k < t_sequence.length && ...; k++)
skipStepsPastEnd(k, t_sequence) ==
    IF k < Len(t_sequence) /\ isSkippable(At(t_sequence, k))
    THEN <<NextStep(k + 1, IF k + 1 < Len(t_sequence) THEN At(t_sequence, k + 1)
                           ELSE Undefined)>>
            \o skipSteps(k + 1, t_sequence)
    ELSE <<>>

\* the for loop of getNextStepsForItem pushing the item it skips over in the
\* place of the item of the target: { index: k + 1, item: t_sequence[k] }
skipStepsStaleItem(k, t_sequence) ==
    IF k < Len(t_sequence) - 1 /\ isSkippable(At(t_sequence, k))
    THEN <<NextStep(k + 1, At(t_sequence, k))>> \o skipSteps(k + 1, t_sequence)
    ELSE <<>>

\* the for loop of getNextStepsForItem, from k on
skipSteps(k, t_sequence) ==
    IF k < Len(t_sequence) - 1 /\ isSkippable(At(t_sequence, k))
    THEN <<NextStep(k + 1, At(t_sequence, k + 1))>> \o skipSteps(k + 1, t_sequence)
    ELSE <<>>

\* getNextStepsForItem with the step to i + 1 before the step that stays at i
getNextStepsForItemAdvanceFirst(i, t_i, t_i_next, t_sequence) ==
    <<NextStep(i + 1, t_i_next)>>
        \o (IF t_i # Undefined /\ hasMoreMatches(t_i) THEN <<NextStep(i, t_i)>> ELSE <<>>)
        \o skipSteps(i + 1, t_sequence)

getNextStepsForItem(i, t_i, t_i_next, t_sequence) ==
    (IF t_i # Undefined /\ hasMoreMatches(t_i) THEN <<NextStep(i, t_i)>> ELSE <<>>)
        \o <<NextStep(i + 1, t_i_next)>>
        \o skipSteps(i + 1, t_sequence)

\* the cross product that drops the pair (i, j) only once both of its
\* trackers have counted two matches
RECURSIVE crossSteps(_, _, _, _, _, _)
crossStepsKeepingPair(a_steps, b_steps, i, j, p, q) ==
    IF p > Len(a_steps) THEN <<>>
    ELSE IF q > Len(b_steps) THEN crossSteps(a_steps, b_steps, i, j, p + 1, 1)
    ELSE (IF \/ a_steps[p].index # i
             \/ b_steps[q].index # j
             \/ a_steps[p].item.matchesCounter < 2
             \/ b_steps[q].item.matchesCounter < 2
          THEN <<[a_step |-> a_steps[p], b_step |-> b_steps[q]]>>
          ELSE <<>>)
         \o crossSteps(a_steps, b_steps, i, j, p, q + 1)

\* a_steps.flatMap((a_step) => b_steps.flatMap((b_step) => ...)), from the
\* a_step at position p and the b_step at position q on
crossSteps(a_steps, b_steps, i, j, p, q) ==
    IF p > Len(a_steps) THEN <<>>
    ELSE IF q > Len(b_steps) THEN crossSteps(a_steps, b_steps, i, j, p + 1, 1)
    ELSE (IF a_steps[p].index # i \/ b_steps[q].index # j
          THEN <<[a_step |-> a_steps[p], b_step |-> b_steps[q]]>>
          ELSE <<>>)
         \o crossSteps(a_steps, b_steps, i, j, p, q + 1)

\* the loop over the skipped items of A cut to its first iteration
skipAccumulateAFirstOnly(acc, a_sequence, k, to) ==
    IF k < to THEN accumulate(acc, At(a_sequence, k), Undefined) ELSE acc

\* for (let k = from; k < to; k++) new_acc = new_acc.accumulate(a_sequence[k], undefined)
RECURSIVE skipAccumulateA(_, _, _, _)
skipAccumulateA(acc, a_sequence, k, to) ==
    IF k < to
    THEN skipAccumulateA(accumulate(acc, At(a_sequence, k), Undefined), a_sequence, k + 1, to)
    ELSE acc

\* for (let k = from; k < to; k++) new_acc = new_acc.accumulate(undefined, b_sequence[k])
RECURSIVE skipAccumulateB(_, _, _, _)
skipAccumulateB(acc, b_sequence, k, to) ==
    IF k < to
    THEN skipAccumulateB(accumulate(acc, Undefined, At(b_sequence, k)), b_sequence, k + 1, to)
    ELSE acc

\* the accumulator handed to the recursive call for one candidate next_step;
\* a_i and b_j are the trackers after matched()
nextAcc(a_sequence, b_sequence, i, j, a_i, b_j, acc, next_step) ==
    LET new_acc == IF i >= 0 /\ j >= 0 THEN accumulate(acc, a_i, b_j) ELSE acc
    IN  IF next_step.a_step.index >= i + 2
        THEN skipAccumulateA(new_acc, a_sequence, i + 1, next_step.a_step.index)
        ELSE IF next_step.b_step.index >= j + 2
        THEN skipAccumulateB(new_acc, b_sequence, j + 1, next_step.b_step.index)
        ELSE new_acc

\* the candidate list `steps` of one step call; a_i and b_j are the trackers
\* after matched()
nextSteps(a_sequence, b_sequence, i, j, a_i, b_j) ==
    LET a_i_next == IF i + 1 < Len(a_sequence) THEN At(a_sequence, i + 1) ELSE Undefined
        b_j_next == IF j + 1 < Len(b_sequence) THEN At(b_sequence, j + 1) ELSE Undefined
        a_steps == getNextStepsForItem(i, a_i, a_i_next, a_sequence)
        b_steps == getNextStepsForItem(j, b_j, b_j_next, b_sequence)
    IN  crossSteps(a_steps, b_steps, i, j, 1, 1)

RECURSIVE step(_, _, _, _, _, _, _)
RECURSIVE forNextStep(_, _, _, _, _, _, _, _, _)

\* the loop of step over the candidates in reverse order
forNextStepLastFirst(a_sequence, b_sequence, i, j, a_i, b_j, acc, steps, n) ==
    IF n > Len(steps) THEN Undefined
    ELSE LET next_step == steps[Len(steps) + 1 - n]
             step_res == step(a_sequence, b_sequence,
                              next_step.a_step.index, next_step.b_step.index,
                              next_step.a_step.item, next_step.b_step.item,
                              nextAcc(a_sequence, b_sequence, i, j, a_i, b_j, acc, next_step))
         IN  IF step_res # Undefined THEN step_res
             ELSE forNextStep(a_sequence, b_sequence, i, j, a_i, b_j, acc, steps, n + 1)

\* the loop of step cut to its first candidate: no backtracking
forNextStepFirstOnly(a_sequence, b_sequence, i, j, a_i, b_j, acc, steps, n) ==
    IF n > Len(steps) \/ n > 1 THEN Undefined
    ELSE step(a_sequence, b_sequence,
              steps[n].a_step.index, steps[n].b_step.index,
              steps[n].a_step.item, steps[n].b_step.item,
              nextAcc(a_sequence, b_sequence, i, j, a_i, b_j, acc, steps[n]))

\* the loop `for (const next_step of steps)` of step, from position n on
forNextStep(a_sequence, b_sequence, i, j, a_i, b_j, acc, steps, n) ==
    IF n > Len(steps) THEN Undefined
    ELSE LET next_step == steps[n]
             step_res == step(a_sequence, b_sequence,
                              next_step.a_step.index, next_step.b_step.index,
                              next_step.a_step.item, next_step.b_step.item,
                              nextAcc(a_sequence, b_sequence, i, j, a_i, b_j, acc, next_step))
         IN  IF step_res # Undefined THEN step_res
             ELSE forNextStep(a_sequence, b_sequence, i, j, a_i, b_j, acc, steps, n + 1)

step(a_sequence, b_sequence, i, j, a_i, b_j, acc) ==
    LET i_next == i + 1
        j_next == j + 1
        a_i_next == IF i_next < Len(a_sequence) THEN At(a_sequence, i_next) ELSE Undefined
        b_j_next == IF j_next < Len(b_sequence) THEN At(b_sequence, j_next) ELSE Undefined
    IN  IF i >= 0 /\ j >= 0 /\ a_i = Undefined /\ b_j = Undefined THEN
            acc
        ELSE IF i >= 0 /\ j >= 0 /\ a_i = Undefined /\ b_j # Undefined THEN
            IF isSkippable(b_j) /\ accumulatorMatches(acc, Undefined, b_j)
            THEN step(a_sequence, b_sequence, i, j_next, a_i, b_j_next,
                      accumulate(acc, Undefined, b_j))
            ELSE Undefined
        ELSE IF i >= 0 /\ j >= 0 /\ a_i # Undefined /\ b_j = Undefined THEN
            IF isSkippable(a_i) /\ accumulatorMatches(acc, a_i, Undefined)
            THEN step(a_sequence, b_sequence, i_next, j, a_i_next, b_j,
                      accumulate(acc, a_i, Undefined))
            ELSE Undefined
        ELSE IF i >= 0 /\ j >= 0 /\ ~accumulatorMatches(acc, a_i, b_j) THEN
            Undefined
        ELSE
            forNextStep(a_sequence, b_sequence, i, j, matchedOpt(a_i), matchedOpt(b_j), acc,
                        nextSteps(a_sequence, b_sequence, i, j, matchedOpt(a_i), matchedOpt(b_j)),
                        1)

traverseAccumulateSequence(a_sequence, b_sequence, acc) ==
    step(a_sequence, b_sequence, -1, -1, Undefined, Undefined, acc)

\* return acc?.value === true
matchSequence(dest, src) ==
    LET acc == traverseAccumulateSequence(Trackers(dest), Trackers(src),
                                          MatchSequenceAccumulator)
    IN  acc # Undefined /\ acc.acc = TRUE

\* return acc?.value, as [value |-> the list] or Undefined
matchAccumulateSequence(dest, src) ==
    LET acc == traverseAccumulateSequence(Trackers(dest), Trackers(src),
                                          MatchAccumulateSequenceAccumulator)
    IN  IF acc = Undefined THEN Undefined ELSE [value |-> acc.acc]

\* return acc?.value, as [value |-> the list] or Undefined
getCommonSequence(dest, src) ==
    LET acc == traverseAccumulateSequence(Trackers(dest), Trackers(src),
                                          CommonSequenceAccumulator)
    IN  IF acc = Undefined THEN Undefined ELSE [value |-> acc.acc]

(***************************************************************************)
(* The caller: it builds the two sequences of SequenceItem objects, one    *)
(* fresh object per position (as matchTupleTypeArgs does with              *)
(* destTypeArgs.map(toSequenceItem)), chooses a predicate, and calls the   *)
(* two queries on them.                                                    *)
(***************************************************************************)
\* longest sequence of the inputs whose items are all {1,1}
MaxFixedLen == 3

\* most items (dest and src together) of the inputs over CoreQuantifiers
MaxItems == 4

\* most items (dest and src together) of the inputs over Quantifiers
MaxQuantifiedItems == 3

\* longest dest and longest src of the inputs with runs of skippable dest items
MaxRunDest == 4

MaxRunSrc == 2

\* longest src of the inputs whose dest items are all X*
MaxVariadicSrc == 4

Quantifier(minMatches, maxMatches) == [minMatches |-> minMatches, maxMatches |-> maxMatches]

Fixed == Quantifier(1, {1})

ZeroOrMore == Quantifier(0, {})

\* X, X*, X?, X+: what getItemToStringFunction renders without braces
CoreQuantifiers == {Fixed, ZeroOrMore, Quantifier(0, {1}), Quantifier(1, {})}

\* every {min:max} with min <= max <= 2, and {min:} with min <= 2
Quantifiers ==
    {Quantifier(mn, {mx}) : mn \in 0..2, mx \in 0..2} \cup {Quantifier(mn, {}) : mn \in 0..2}

ValidQuantifiers == {q \in Quantifiers : \A mx \in q.maxMatches : q.minMatches <= mx}

\* the objects of one sequence: position k holds a fresh object (ref k) whose
\* item is the value k
Items(quantifiers) ==
    [k \in 1..Len(quantifiers) |->
        SequenceItem(k, k, quantifiers[k].minMatches, quantifiers[k].maxMatches)]

\* a caller that never calls getCommonSequence passes no getCommon
NoCommonQuery ==
    /\ getCommon = Undefined
    /\ getCommonSequenceResult = NotCalled

Inputs(n, m, destQuantifiers, srcQuantifiers) ==
    /\ \E dq \in [1..n -> destQuantifiers] : destSequence = Items(dq)
    /\ \E sq \in [1..m -> srcQuantifiers] : srcSequence = Items(sq)
    /\ destMatchesSrc \in SUBSET ((1..n) \X (1..m))
    /\ matchSequenceResult = NotCalled
    /\ matchAccumulateSequenceResult = NotCalled
    /\ NoCommonQuery

\* dest of {1,1} and X* items, src of {1,1} items, and a predicate under which
\* no X* item of dest matches anything
RunInputs(n, m) ==
    /\ \E dq \in [1..n -> {Fixed, ZeroOrMore}] : destSequence = Items(dq)
    /\ srcSequence = Items([k \in 1..m |-> Fixed])
    /\ destMatchesSrc \in SUBSET ({k \in 1..n : destSequence[k].minMatches = 1} \X (1..m))
    /\ matchSequenceResult = NotCalled
    /\ matchAccumulateSequenceResult = NotCalled
    /\ NoCommonQuery

\* dest of X* items only, src of {1,1} items, and the predicate that accepts
\* every pair
VariadicInputs(n, m) ==
    /\ destSequence = Items([k \in 1..n |-> ZeroOrMore])
    /\ srcSequence = Items([k \in 1..m |-> Fixed])
    /\ destMatchesSrc = (1..n) \X (1..m)
    /\ matchSequenceResult = NotCalled
    /\ matchAccumulateSequenceResult = NotCalled
    /\ NoCommonQuery

Init ==
    /\ NoUnits
    /\ memory = NotCalled
    /\ \/ \E n \in 0..MaxFixedLen, m \in 0..MaxFixedLen : Inputs(n, m, {Fixed}, {Fixed})
       \/ \E n \in 0..MaxItems : \E m \in 0..(MaxItems - n) :
               Inputs(n, m, CoreQuantifiers, CoreQuantifiers)
       \/ \E n \in 0..MaxQuantifiedItems : \E m \in 0..(MaxQuantifiedItems - n) :
               Inputs(n, m, ValidQuantifiers, ValidQuantifiers)
       \/ \E n \in 0..MaxRunDest, m \in 0..MaxRunSrc : RunInputs(n, m)
       \/ \E n \in 1..2, m \in 0..MaxVariadicSrc : VariadicInputs(n, m)

CallMatchSequence ==
    /\ matchSequenceResult = NotCalled
    /\ matchSequenceResult' = [value |-> matchSequence(destSequence, srcSequence)]
    /\ UNCHANGED <<destSequence, srcSequence, destMatchesSrc, matchAccumulateSequenceResult,
                   getCommon, getCommonSequenceResult, memory, units>>

CallMatchAccumulateSequence ==
    /\ matchAccumulateSequenceResult = NotCalled
    /\ matchAccumulateSequenceResult' = matchAccumulateSequence(destSequence, srcSequence)
    /\ UNCHANGED <<destSequence, srcSequence, destMatchesSrc, matchSequenceResult,
                   getCommon, getCommonSequenceResult, memory, units>>

Next == CallMatchSequence \/ CallMatchAccumulateSequence

Spec == Init /\ [][Next]_vars

\* longest sequence of the inputs of SpecVariadic
MaxLen == 3

\* sequences of {1,1} and X* items only, with every predicate
InitVariadic ==
    /\ NoUnits
    /\ memory = NotCalled
    /\ \E n \in 0..MaxLen, m \in 0..MaxLen :
            Inputs(n, m, {Fixed, ZeroOrMore}, {Fixed, ZeroOrMore})

SpecVariadic == InitVariadic /\ [][Next]_vars

(***************************************************************************)
(* A caller of the three queries on documented examples and on small       *)
(* sequences with every getCommon.  In the examples an item's value is    *)
(* its label and destMatchesSrc is a set of pairs of labels.               *)
(***************************************************************************)
LabelledItems(labels, quantifiers) ==
    [k \in 1..Len(labels) |->
        SequenceItem(k, labels[k], quantifiers[k].minMatches, quantifiers[k].maxMatches)]

FixedItems(labels) == LabelledItems(labels, [k \in 1..Len(labels) |-> Fixed])

EqualLabels(labels) == {<<l, l>> : l \in labels}

\* [B, S] VS [d*, B, S]
DestBS == FixedItems(<<"B", "S">>)

SrcdBS == LabelledItems(<<"d", "B", "S">>, <<ZeroOrMore, Fixed, Fixed>>)

\* def b[*A, *B](param: tuple[Mark1, *A, Mark2, *B]) and b5()
DestMarks == LabelledItems(<<"Mark1", "A", "Mark2", "B">>, <<Fixed, ZeroOrMore, Fixed, ZeroOrMore>>)

SrcB5 == FixedItems(<<"Mark1", "Mark2", "Mark2", "Mark2", "Mark2", "str">>)

MarksMatches ==
    EqualLabels({"Mark1", "Mark2"}) \cup ({"A", "B"} \X {"Mark1", "Mark2", "str"})

\* [V, *Vs] <==> [*Ds, D]
DestVVs == LabelledItems(<<"V", "Vs">>, <<Fixed, ZeroOrMore>>)

SrcDsD == LabelledItems(<<"Ds", "D">>, <<ZeroOrMore, Fixed>>)

VVsMatches == {"V", "Vs"} \X {"Ds", "D"}

\* def a(param: tuple[Singular1, *tuple[Repeated1, ...], Singular2, *tuple[Repeated2, ...]])
DestA == LabelledItems(<<"Singular1", "Repeated1", "Singular2", "Repeated2">>,
                       <<Fixed, ZeroOrMore, Fixed, ZeroOrMore>>)

SrcValid1 == FixedItems(<<"Singular1", "Singular2">>)

SrcValid2 == LabelledItems(<<"Singular1", "Repeated1", "Singular2">>, <<Fixed, ZeroOrMore, Fixed>>)

SrcValid3 == DestA

SrcValid4 == FixedItems(<<"Singular1", "Repeated1", "Singular2", "Repeated2">>)

SrcInvalid1 == FixedItems(<<"Singular1">>)

SrcInvalid2 == FixedItems(<<"Repeated2", "Singular1", "Singular2">>)

SrcInvalid3 == FixedItems(<<"Singular1", "Singular2", "Repeated1", "Repeated2">>)

SrcValid == {SrcValid1, SrcValid2, SrcValid3, SrcValid4}

SrcInvalid == {SrcInvalid1, SrcInvalid2, SrcInvalid3}

AMatches == EqualLabels({"Singular1", "Repeated1", "Singular2", "Repeated2"})

\* [int, int, int] and [int*]; getCommon returns one and the same int* object
DestInts == FixedItems(<<"int", "int", "int">>)

SrcInts == LabelledItems(<<"int">>, <<ZeroOrMore>>)

CommonInt == SequenceItem(1, "int", 0, {})

GetCommonInt ==
    [k \in (0..Len(DestInts)) \X (0..Len(SrcInts)) |->
        IF k = <<0, 0>> THEN Undefined ELSE CommonInt]

QueryInputs(dest, src, predicate, common) ==
    /\ destSequence = dest
    /\ srcSequence = src
    /\ destMatchesSrc = predicate
    /\ getCommon = common
    /\ matchSequenceResult = NotCalled
    /\ matchAccumulateSequenceResult = NotCalled
    /\ getCommonSequenceResult = NotCalled

ExampleInputs ==
    \/ QueryInputs(DestBS, SrcdBS, EqualLabels({"B", "S", "d"}), Undefined)
    \/ QueryInputs(DestMarks, SrcB5, MarksMatches, Undefined)
    \/ QueryInputs(DestVVs, SrcDsD, VVsMatches, Undefined)
    \/ \E src \in SrcValid \cup SrcInvalid : QueryInputs(DestA, src, AMatches, Undefined)
    \/ QueryInputs(DestInts, SrcInts, EqualLabels({"int"}), GetCommonInt)

\* most items (dest and src together) of the inputs with every getCommon
MaxCommonItems == 3

\* the common items getCommon chooses from: two X* objects and one {1,1} object
CommonItems ==
    <<SequenceItem(1, "c1", 0, {}), SequenceItem(2, "c2", 1, {1}), SequenceItem(3, "c3", 0, {})>>

\* the values of the items of these inputs, by position
ItemLabels == <<"i1", "i2", "i3", "i4", "i5">>

\* the common item of the pairs with the dest key d
CommonOfDest(d) == CommonItems[(d % Len(CommonItems)) + 1]

\* a getCommon that returns the common item of the dest key for the pairs of
\* keys of a set, and undefined elsewhere, for every such set;
\* destMatchesSrc accepts the pairs that have a common item
CommonInputs(n, m) ==
    \E dq \in [1..n -> {Fixed, ZeroOrMore}], sq \in [1..m -> {Fixed, ZeroOrMore}] :
        \E defined \in SUBSET (((0..n) \X (0..m)) \ {<<0, 0>>}) :
            QueryInputs(LabelledItems(SubSeq(ItemLabels, 1, n), dq),
                        LabelledItems(SubSeq(ItemLabels, 1, m), sq),
                        {<<ItemLabels[k[1]], ItemLabels[k[2]]>> :
                            k \in {l \in defined : l[1] > 0 /\ l[2] > 0}},
                        [k \in (0..n) \X (0..m) |->
                            IF k \in defined THEN CommonOfDest(k[1]) ELSE Undefined])

\* a common item of its own for every pair of keys: a {1,1} object whose ref
\* encodes the pair, so that the returned list shows every call of accumulate
PairItem(d, s, m) == SequenceItem(d * (m + 1) + s, "pair", 1, {1})

\* X+
OneOrMore == Quantifier(1, {})

\* sequences of X, X* and X+ items with a getCommon that returns the PairItem
\* of the pair for the pairs of a set and for every pair with one side
\* undefined; destMatchesSrc accepts the pairs of the set
RecordingInputs(n, m) ==
    \E dq \in [1..n -> {Fixed, ZeroOrMore, OneOrMore}],
       sq \in [1..m -> {Fixed, ZeroOrMore, OneOrMore}],
       pairs \in SUBSET ((1..n) \X (1..m)) :
        QueryInputs(LabelledItems(SubSeq(ItemLabels, 1, n), dq),
                    LabelledItems(SubSeq(ItemLabels, 1, m), sq),
                    {<<ItemLabels[k[1]], ItemLabels[k[2]]>> : k \in pairs},
                    [k \in (0..n) \X (0..m) |->
                        IF k = <<0, 0>> \/ (k[1] > 0 /\ k[2] > 0 /\ k \notin pairs)
                        THEN Undefined
                        ELSE PairItem(k[1], k[2], m)])

InitQueries ==
    /\ NoUnits
    /\ memory = NotCalled
    /\ \/ ExampleInputs
       \/ \E n \in 0..MaxCommonItems : \E m \in 0..(MaxCommonItems - n) : CommonInputs(n, m)
       \/ \E n \in 0..MaxCommonItems : \E m \in 0..(MaxCommonItems - n) :
                RecordingInputs(n, m)

CallGetCommonSequence ==
    /\ getCommon # Undefined
    /\ getCommonSequenceResult = NotCalled
    /\ getCommonSequenceResult' = getCommonSequence(destSequence, srcSequence)
    /\ UNCHANGED <<destSequence, srcSequence, destMatchesSrc, getCommon,
                   matchSequenceResult, matchAccumulateSequenceResult, memory, units>>

NextQueries ==
    \/ CallMatchSequence
    \/ CallMatchAccumulateSequence
    \/ CallGetCommonSequence

SpecQueries == InitQueries /\ [][NextQueries]_vars

(***************************************************************************)
(* A caller of the three queries on sequences of X and X* items with a     *)
(* getCommon that records the calls of accumulate.                         *)
(***************************************************************************)
\* most items (dest and src together) of these inputs: two items on each side
\* are needed for a candidate that skips on both sides
MaxWalkItems == 4

\* sequences of X and X* items with a getCommon that returns the PairItem of
\* the pair for the pairs of a set and for every pair with one side
\* undefined; destMatchesSrc accepts the pairs of the set
WalkInputs(n, m) ==
    \E dq \in [1..n -> {Fixed, ZeroOrMore}],
       sq \in [1..m -> {Fixed, ZeroOrMore}],
       pairs \in SUBSET ((1..n) \X (1..m)) :
        QueryInputs(LabelledItems(SubSeq(ItemLabels, 1, n), dq),
                    LabelledItems(SubSeq(ItemLabels, 1, m), sq),
                    {<<ItemLabels[k[1]], ItemLabels[k[2]]>> : k \in pairs},
                    [k \in (0..n) \X (0..m) |->
                        IF k = <<0, 0>> \/ (k[1] > 0 /\ k[2] > 0 /\ k \notin pairs)
                        THEN Undefined
                        ELSE PairItem(k[1], k[2], m)])

InitWalks ==
    /\ NoUnits
    /\ memory = NotCalled
    /\ \E n \in 0..MaxWalkItems : \E m \in 0..(MaxWalkItems - n) : WalkInputs(n, m)

NextWalks ==
    \/ CallMatchSequence
    \/ CallMatchAccumulateSequence
    \/ CallGetCommonSequence

SpecWalks == InitWalks /\ [][NextWalks]_vars

(***************************************************************************)
(* Properties                                                              *)
(***************************************************************************)
ExistenceReturned == matchSequenceResult # NotCalled

GroupedReturned == matchAccumulateSequenceResult # NotCalled

\* matchAccumulateSequence has returned a list (not undefined)
GroupedFound == GroupedReturned /\ matchAccumulateSequenceResult # Undefined

Groups == matchAccumulateSequenceResult.value

IsFixed(item) == item.minMatches = 1 /\ item.maxMatches = {1}

AllFixed ==
    /\ \A k \in 1..Len(destSequence) : IsFixed(destSequence[k])
    /\ \A k \in 1..Len(srcSequence) : IsFixed(srcSequence[k])

PairwiseMatch ==
    /\ Len(destSequence) = Len(srcSequence)
    /\ \A k \in 1..Len(destSequence) :
            <<destSequence[k].item, srcSequence[k].item>> \in destMatchesSrc

\* the places <<g, s>> of the src items in a list of groups
Pairings(groups) ==
    UNION {{<<g, s>> : s \in 1..Len(groups[g].matchedSrcItems)} : g \in 1..Len(groups)}

\* how many src items the groups pair with the dest object d
DestPairCount(groups, d) ==
    Cardinality({p \in Pairings(groups) : groups[p[1]].destItem = d})

\* how many times the groups pair the src object s
SrcPairCount(groups, s) ==
    Cardinality({p \in Pairings(groups) : groups[p[1]].matchedSrcItems[p[2]] = s})

\* C1: for sequences whose items are all {1,1}, matchAccumulateSequence returns
\* a list iff the lengths are equal and the predicate holds at every index, and
\* the list is then one group <dest_k, [src_k]> per index k, in order.
C1_FixedGrouped ==
    (GroupedReturned /\ AllFixed) =>
        /\ GroupedFound <=> PairwiseMatch
        /\ GroupedFound =>
              Groups = [k \in 1..Len(destSequence) |->
                            DestItemMatches(destSequence[k], <<srcSequence[k]>>)]

C1_Witness ==
    /\ GroupedFound
    /\ AllFixed
    /\ Len(destSequence) >= 2
    /\ Len(Groups) = Len(destSequence)

\* C2: for sequences whose items are all {1,1}, matchSequence returns true iff
\* the lengths are equal and the predicate holds at every index.
C2_FixedExistence ==
    (ExistenceReturned /\ AllFixed) => (matchSequenceResult.value <=> PairwiseMatch)

\* C3: for two empty sequences matchSequence returns true.
C3_EmptyExistence ==
    (ExistenceReturned /\ destSequence = <<>> /\ srcSequence = <<>>)
        => matchSequenceResult.value = TRUE

\* C4: in every list matchAccumulateSequence returns, every src item of every
\* group satisfies destMatchesSrc with the dest item of its group.
C4_GroupsCompatible ==
    GroupedFound =>
        \A p \in Pairings(Groups) :
            <<Groups[p[1]].destItem.item, Groups[p[1]].matchedSrcItems[p[2]].item>>
                \in destMatchesSrc

C4_Witness ==
    /\ GroupedFound
    /\ \E g \in 1..Len(Groups) : Len(Groups[g].matchedSrcItems) >= 2
    /\ destMatchesSrc # {}
    /\ destMatchesSrc # (1..Len(destSequence)) \X (1..Len(srcSequence))

\* C5: in the accepted walk an item whose maxMatches is present is paired with
\* at most maxMatches elements of the opposing sequence, maxMatches = 0
\* included.
C5_AtMostMaxMatches ==
    GroupedFound =>
        /\ \A k \in 1..Len(destSequence) : \A mx \in destSequence[k].maxMatches :
                DestPairCount(Groups, destSequence[k]) <= mx
        /\ \A k \in 1..Len(srcSequence) : \A mx \in srcSequence[k].maxMatches :
                SrcPairCount(Groups, srcSequence[k]) <= mx

\* C6: in the accepted walk each item is paired with at least minMatches
\* elements of the opposing sequence.
C6_AtLeastMinMatches ==
    GroupedFound =>
        /\ \A k \in 1..Len(destSequence) :
                DestPairCount(Groups, destSequence[k]) >= destSequence[k].minMatches
        /\ \A k \in 1..Len(srcSequence) :
                SrcPairCount(Groups, srcSequence[k]) >= srcSequence[k].minMatches

AllSrcFixed == \A k \in 1..Len(srcSequence) : IsFixed(srcSequence[k])

AllDestZeroOrMore ==
    \A k \in 1..Len(destSequence) :
        destSequence[k].minMatches = 0 /\ destSequence[k].maxMatches = {}

MatchesEverything ==
    destMatchesSrc = (1..Len(destSequence)) \X (1..Len(srcSequence))

\* C7: for dest = [X*] and a src of n >= 1 items {1,1} that X all matches,
\* matchAccumulateSequence returns exactly one group <X, [all n src items in order]>.
C7_Greedy ==
    (/\ GroupedReturned
     /\ Len(destSequence) = 1 /\ AllDestZeroOrMore
     /\ Len(srcSequence) >= 1 /\ AllSrcFixed
     /\ MatchesEverything)
        => /\ GroupedFound
           /\ Groups = <<DestItemMatches(destSequence[1], srcSequence)>>

C7_Witness ==
    /\ GroupedFound
    /\ Len(destSequence) = 1 /\ AllDestZeroOrMore
    /\ Len(srcSequence) >= 3 /\ AllSrcFixed
    /\ MatchesEverything
    /\ Len(Groups) = 1

\* C8: for dest = [As*, Bs*] that both match every src item and a src of n
\* items {1,1}, matchAccumulateSequence returns <As, [all n items]>, <Bs, []>.
C8_EagerAmbiguity ==
    (/\ GroupedReturned
     /\ Len(destSequence) = 2 /\ AllDestZeroOrMore
     /\ AllSrcFixed
     /\ MatchesEverything)
        => /\ GroupedFound
           /\ Groups = <<DestItemMatches(destSequence[1], srcSequence),
                         DestItemMatches(destSequence[2], <<>>)>>

C8_Witness ==
    /\ GroupedFound
    /\ Len(destSequence) = 2 /\ AllDestZeroOrMore
    /\ Len(srcSequence) = 2 /\ AllSrcFixed
    /\ MatchesEverything
    /\ Len(Groups) = 2

\* the accumulators of all the accepting walks below one call of step: step
\* itself, with every candidate of the loop followed instead of the first
\* that succeeds
RECURSIVE acceptedBelow(_, _, _, _, _, _, _)
acceptedBelow(a_sequence, b_sequence, i, j, a_i, b_j, acc) ==
    LET a_i_next == IF i + 1 < Len(a_sequence) THEN At(a_sequence, i + 1) ELSE Undefined
        b_j_next == IF j + 1 < Len(b_sequence) THEN At(b_sequence, j + 1) ELSE Undefined
        a_m == matchedOpt(a_i)
        b_m == matchedOpt(b_j)
        steps == nextSteps(a_sequence, b_sequence, i, j, a_m, b_m)
    IN  IF i >= 0 /\ j >= 0 /\ a_i = Undefined /\ b_j = Undefined THEN {acc}
        ELSE IF i >= 0 /\ j >= 0 /\ a_i = Undefined THEN
            IF isSkippable(b_j) /\ accumulatorMatches(acc, Undefined, b_j)
            THEN acceptedBelow(a_sequence, b_sequence, i, j + 1, a_i, b_j_next,
                               accumulate(acc, Undefined, b_j))
            ELSE {}
        ELSE IF i >= 0 /\ j >= 0 /\ b_j = Undefined THEN
            IF isSkippable(a_i) /\ accumulatorMatches(acc, a_i, Undefined)
            THEN acceptedBelow(a_sequence, b_sequence, i + 1, j, a_i_next, b_j,
                               accumulate(acc, a_i, Undefined))
            ELSE {}
        ELSE IF i >= 0 /\ j >= 0 /\ ~accumulatorMatches(acc, a_i, b_j) THEN {}
        ELSE UNION {acceptedBelow(a_sequence, b_sequence,
                                  steps[n].a_step.index, steps[n].b_step.index,
                                  steps[n].a_step.item, steps[n].b_step.item,
                                  nextAcc(a_sequence, b_sequence, i, j, a_m, b_m, acc, steps[n]))
                    : n \in 1..Len(steps)}

\* the grouped results of all the accepting walks of the inputs
AllAcceptedGroups ==
    {acc.acc : acc \in acceptedBelow(Trackers(destSequence), Trackers(srcSequence),
                                     -1, -1, Undefined, Undefined,
                                     MatchAccumulateSequenceAccumulator)}

RepeatedDest == {k \in 1..Len(destSequence) : isRepeated(destSequence[k])}

LeftmostRepeatedDest == CHOOSE k \in RepeatedDest : \A l \in RepeatedDest : k <= l

\* C9: the group returned for the leftmost repeatable dest item holds at least
\* as many src items as that item is paired with in any accepting walk.
C9_LeftmostMaximal ==
    (GroupedFound /\ RepeatedDest # {}) =>
        \A groups \in AllAcceptedGroups :
            DestPairCount(Groups, destSequence[LeftmostRepeatedDest])
                >= DestPairCount(groups, destSequence[LeftmostRepeatedDest])

\* the dest items of the groups whose source list is empty, in the order of the
\* groups
EmptyGroupDests ==
    LET empty == SelectSeq(Groups, LAMBDA g : g.matchedSrcItems = <<>>)
    IN  [k \in 1..Len(empty) |-> empty[k].destItem]

\* the dest items that the returned groups pair with no src item, in the order
\* of destSequence
UnpairedDests == SelectSeq(destSequence, LAMBDA d : DestPairCount(Groups, d) = 0)

AllDestSkippable == \A k \in 1..Len(destSequence) : destSequence[k].minMatches <= 0

\* C10: the dest items left without a counterpart in src have exactly one
\* group with an empty source list each, in the order of dest; dest items that
\* are all skippable match an empty src, with one empty group each.
C10_SkipChain ==
    /\ GroupedFound => EmptyGroupDests = UnpairedDests
    /\ (GroupedReturned /\ srcSequence = <<>> /\ AllDestSkippable) =>
            /\ GroupedFound
            /\ Groups = [k \in 1..Len(destSequence) |->
                            DestItemMatches(destSequence[k], <<>>)]

\* a run of two skippable dest items between two paired dest items
C10_Witness ==
    /\ GroupedFound
    /\ Len(destSequence) = 4
    /\ Len(Groups) = 4
    /\ Groups[1].matchedSrcItems # <<>>
    /\ Groups[2] = DestItemMatches(destSequence[2], <<>>)
    /\ Groups[3] = DestItemMatches(destSequence[3], <<>>)
    /\ Groups[4].matchedSrcItems # <<>>

(***************************************************************************)
(* Documented examples (SpecQueries)                                       *)
(***************************************************************************)
IsExample(dest, src, predicate) ==
    /\ destSequence = dest
    /\ srcSequence = src
    /\ destMatchesSrc = predicate

\* C11: for dest = [B, S] and src = [d*, B, S] with equality of labels as the
\* predicate, matchSequence returns true: the leading d* is matched zero times.
C11_LeadingSkipped ==
    (/\ IsExample(DestBS, SrcdBS, EqualLabels({"B", "S", "d"}))
     /\ matchSequenceResult # NotCalled)
        => matchSequenceResult.value = TRUE

C11_Witness ==
    /\ IsExample(DestBS, SrcdBS, EqualLabels({"B", "S", "d"}))
    /\ matchSequenceResult # NotCalled
    /\ matchSequenceResult.value = TRUE

\* the group of the returned list whose dest item has the given label
GroupOf(label) ==
    LET found == SelectSeq(Groups, LAMBDA g : g.destItem.item = label)
    IN  [k \in 1..Len(found) |-> [l \in 1..Len(found[k].matchedSrcItems) |->
                                        found[k].matchedSrcItems[l].item]]

\* C12 (as stated): for dest = [Mark1, A*, Mark2, B*] and
\* src = [Mark1, Mark2, Mark2, Mark2, Mark2, str], matchAccumulateSequence gives
\* A the empty list and B the list [Mark2, Mark2, Mark2, str].
C12_AEmpty ==
    (IsExample(DestMarks, SrcB5, MarksMatches) /\ GroupedReturned) =>
        /\ GroupedFound
        /\ GroupOf("A") = << <<>> >>
        /\ GroupOf("B") = << <<"Mark2", "Mark2", "Mark2", "str">> >>

\* C12 (amended): on that input matchAccumulateSequence returns the four groups
\* <Mark1, [Mark1]>, <A, [Mark2, Mark2, Mark2]>, <Mark2, [Mark2]>, <B, [str]>,
\* the src items in their order of position.
C12_Groups ==
    (IsExample(DestMarks, SrcB5, MarksMatches) /\ GroupedReturned) =>
        /\ GroupedFound
        /\ Groups = <<DestItemMatches(DestMarks[1], <<SrcB5[1]>>),
                      DestItemMatches(DestMarks[2], <<SrcB5[2], SrcB5[3], SrcB5[4]>>),
                      DestItemMatches(DestMarks[3], <<SrcB5[5]>>),
                      DestItemMatches(DestMarks[4], <<SrcB5[6]>>)>>

C12_Witness ==
    /\ IsExample(DestMarks, SrcB5, MarksMatches)
    /\ GroupedFound
    /\ Len(Groups) = 4

\* C13: on the same input matchAccumulateSequence gives A the list
\* [Mark2, Mark2, Mark2] and B the list [str].
C13_AGreedy ==
    (IsExample(DestMarks, SrcB5, MarksMatches) /\ GroupedReturned) =>
        /\ GroupedFound
        /\ GroupOf("A") = << <<"Mark2", "Mark2", "Mark2">> >>
        /\ GroupOf("B") = << <<"str">> >>

C13_Witness ==
    /\ IsExample(DestMarks, SrcB5, MarksMatches)
    /\ GroupedFound
    /\ GroupOf("A") # <<>>
    /\ GroupOf("Mark2") = << <<"Mark2">> >>

\* C14: for dest = [V, Vs*] and src = [Ds*, D] with a predicate that accepts
\* every pair, matchAccumulateSequence returns <V, [Ds]>, <Vs, [Ds, D]>: the
\* object Ds is in two consecutive groups.
C14_SplitVariadic ==
    (IsExample(DestVVs, SrcDsD, VVsMatches) /\ GroupedReturned) =>
        /\ GroupedFound
        /\ Groups = <<DestItemMatches(DestVVs[1], <<SrcDsD[1]>>),
                      DestItemMatches(DestVVs[2], <<SrcDsD[1], SrcDsD[2]>>)>>

C14_Witness ==
    /\ IsExample(DestVVs, SrcDsD, VVsMatches)
    /\ GroupedFound
    /\ Len(Groups) = 2
    /\ Groups[1].matchedSrcItems[1] = Groups[2].matchedSrcItems[1]

\* C15: for dest = [Singular1, Repeated1*, Singular2, Repeated2*] and equality
\* of labels, matchAccumulateSequence finds a walk for the sources valid1 ..
\* valid4 and none for invalid1 .. invalid3.
C15_ValidInvalid ==
    (/\ destSequence = DestA
     /\ destMatchesSrc = AMatches
     /\ srcSequence \in SrcValid \cup SrcInvalid
     /\ GroupedReturned)
        => (GroupedFound <=> srcSequence \in SrcValid)

C15_Witness ==
    /\ destSequence = DestA
    /\ destMatchesSrc = AMatches
    /\ srcSequence = SrcValid4
    /\ GroupedFound

\* C16: for dest = [int, int, int] and src = [int*], with a getCommon that
\* returns one and the same int* whenever a side is int, getCommonSequence
\* returns the list with the single entry int*.
C16_Coalesced ==
    (/\ IsExample(DestInts, SrcInts, EqualLabels({"int"}))
     /\ getCommon = GetCommonInt
     /\ getCommonSequenceResult # NotCalled)
        => getCommonSequenceResult = [value |-> <<CommonInt>>]

C16_Witness ==
    /\ IsExample(DestInts, SrcInts, EqualLabels({"int"}))
    /\ getCommon = GetCommonInt
    /\ getCommonSequenceResult # NotCalled
    /\ getCommonSequenceResult # Undefined
    /\ Len(getCommonSequenceResult.value) = 1

(***************************************************************************)
(* Absence of a walk, termination, determinism (SpecQueries)               *)
(***************************************************************************)
\* the accumulators of all the accepting walks of the inputs for one strategy
AcceptedWalks(acc) ==
    acceptedBelow(Trackers(destSequence), Trackers(srcSequence),
                  -1, -1, Undefined, Undefined, acc)

CommonReturned == getCommonSequenceResult # NotCalled

CommonFound == CommonReturned /\ getCommonSequenceResult # Undefined

BothEmpty == destSequence = <<>> /\ srcSequence = <<>>

EmptyDestSkippableSrc ==
    /\ destSequence = <<>>
    /\ \A k \in 1..Len(srcSequence) : srcSequence[k].minMatches <= 0

\* matchAccumulateSequence and getCommonSequence return undefined exactly when
\* no walk is accepting, and a list otherwise
UndefinedIffNoWalk ==
    /\ GroupedReturned =>
        (GroupedFound <=> AcceptedWalks(MatchAccumulateSequenceAccumulator) # {})
    /\ CommonReturned =>
        (CommonFound <=> AcceptedWalks(CommonSequenceAccumulator) # {})

\* C17 (as stated): both queries return undefined exactly when no walk is
\* accepting; two empty sequences, and an empty dest against a src of skippable
\* items only, give the empty list in both queries.
C17_EmptyListBothQueries ==
    /\ UndefinedIffNoWalk
    /\ (GroupedReturned /\ (BothEmpty \/ EmptyDestSkippableSrc)) =>
            matchAccumulateSequenceResult = [value |-> <<>>]
    /\ (CommonReturned /\ (BothEmpty \/ EmptyDestSkippableSrc)) =>
            getCommonSequenceResult = [value |-> <<>>]

\* getCommon(undefined, the last item of src)
CommonOfLastSrc == getCommon[<<0, srcSequence[Len(srcSequence)].ref>>]

\* C17 (amended): both queries return undefined exactly when no walk is
\* accepting.  Two empty sequences give the empty list in both queries.  An
\* empty dest against a non-empty src of skippable items only gives the empty
\* list in matchAccumulateSequence; in getCommonSequence it gives undefined if
\* getCommon(undefined, last item of src) is undefined, and otherwise a
\* non-empty list that ends with that common item.
C17_UndefinedIffNoWalk ==
    /\ UndefinedIffNoWalk
    /\ (GroupedReturned /\ (BothEmpty \/ EmptyDestSkippableSrc)) =>
            matchAccumulateSequenceResult = [value |-> <<>>]
    /\ (CommonReturned /\ BothEmpty) => getCommonSequenceResult = [value |-> <<>>]
    /\ (CommonReturned /\ EmptyDestSkippableSrc /\ srcSequence # <<>>) =>
            IF CommonOfLastSrc = Undefined
            THEN getCommonSequenceResult = Undefined
            ELSE /\ CommonFound
                 /\ getCommonSequenceResult.value # <<>>
                 /\ getCommonSequenceResult.value[Len(getCommonSequenceResult.value)]
                        = CommonOfLastSrc

\* an empty dest against two skippable src items: both queries have returned a
\* list, the grouped one empty, the common one not
C17_Witness ==
    /\ destSequence = <<>>
    /\ Len(srcSequence) = 2
    /\ EmptyDestSkippableSrc
    /\ GroupedFound
    /\ Groups = <<>>
    /\ CommonFound
    /\ getCommonSequenceResult.value # <<>>

Max(S) == CHOOSE x \in S : \A y \in S : y <= x

\* the calls of step that one call of step makes, directly or not, up to its
\* return: edges is the set of <<i, j, i', j'>> with step(i, j, ..) calling
\* step(i', j', ..), depth the length of the longest chain of nested calls,
\* this call included
RECURSIVE searchTree(_, _, _, _, _, _, _)
searchTree(a_sequence, b_sequence, i, j, a_i, b_j, acc) ==
    LET a_i_next == IF i + 1 < Len(a_sequence) THEN At(a_sequence, i + 1) ELSE Undefined
        b_j_next == IF j + 1 < Len(b_sequence) THEN At(b_sequence, j + 1) ELSE Undefined
        a_m == matchedOpt(a_i)
        b_m == matchedOpt(b_j)
        steps == nextSteps(a_sequence, b_sequence, i, j, a_m, b_m)
        new_acc(n) == nextAcc(a_sequence, b_sequence, i, j, a_m, b_m, acc, steps[n])
        step_res(n) == step(a_sequence, b_sequence,
                            steps[n].a_step.index, steps[n].b_step.index,
                            steps[n].a_step.item, steps[n].b_step.item, new_acc(n))
        \* the candidates the loop reaches: up to the first one that succeeds
        tried == {n \in 1..Len(steps) : \A k \in 1..(n - 1) : step_res(k) = Undefined}
        below(n) == searchTree(a_sequence, b_sequence,
                               steps[n].a_step.index, steps[n].b_step.index,
                               steps[n].a_step.item, steps[n].b_step.item, new_acc(n))
        leaf == [edges |-> {}, depth |-> 1]
        under(i2, j2, tree) ==
            [edges |-> {<<i, j, i2, j2>>} \cup tree.edges, depth |-> 1 + tree.depth]
    IN  IF i >= 0 /\ j >= 0 /\ a_i = Undefined /\ b_j = Undefined THEN leaf
        ELSE IF i >= 0 /\ j >= 0 /\ a_i = Undefined THEN
            IF isSkippable(b_j) /\ accumulatorMatches(acc, Undefined, b_j)
            THEN under(i, j + 1, searchTree(a_sequence, b_sequence, i, j + 1, a_i, b_j_next,
                                            accumulate(acc, Undefined, b_j)))
            ELSE leaf
        ELSE IF i >= 0 /\ j >= 0 /\ b_j = Undefined THEN
            IF isSkippable(a_i) /\ accumulatorMatches(acc, a_i, Undefined)
            THEN under(i + 1, j, searchTree(a_sequence, b_sequence, i + 1, j, a_i_next, b_j,
                                            accumulate(acc, a_i, Undefined)))
            ELSE leaf
        ELSE IF i >= 0 /\ j >= 0 /\ ~accumulatorMatches(acc, a_i, b_j) THEN leaf
        ELSE [edges |-> UNION {under(steps[n].a_step.index, steps[n].b_step.index,
                                     below(n)).edges : n \in tried},
              depth |-> 1 + Max({0} \cup {below(n).depth : n \in tried})]

\* the calls of step of one query
SearchOf(acc) ==
    searchTree(Trackers(destSequence), Trackers(srcSequence), -1, -1, Undefined, Undefined, acc)

Terminates(tree) ==
    /\ \A e \in tree.edges :
        /\ e[3] + e[4] > e[1] + e[2]
        /\ e[3] <= Len(destSequence)
        /\ e[4] <= Len(srcSequence)
    /\ tree.depth <= Len(destSequence) + Len(srcSequence) + 2

\* C18: in the search of each query, every call of step from step has a larger
\* i + j than its caller and indices within 0 .. length, and no chain of nested
\* calls is longer than |dest| + |src| + 2; the query has returned a result or
\* undefined.
C18_Terminates ==
    /\ ExistenceReturned =>
        /\ Terminates(SearchOf(MatchSequenceAccumulator))
        /\ matchSequenceResult.value \in BOOLEAN
    /\ GroupedReturned => Terminates(SearchOf(MatchAccumulateSequenceAccumulator))
    /\ CommonReturned => Terminates(SearchOf(CommonSequenceAccumulator))

\* a search with backtracking (more calls than its longest chain) whose longest
\* chain has |dest| + |src| + 2 calls
C18_Witness ==
    /\ GroupedFound
    /\ destSequence # <<>>
    /\ srcSequence # <<>>
    /\ LET tree == SearchOf(MatchAccumulateSequenceAccumulator)
       IN  /\ tree.depth = Len(destSequence) + Len(srcSequence) + 2
           /\ Cardinality(tree.edges) > tree.depth

(***************************************************************************)
(* Zero-occurrence matches (SpecQueries, inputs of RecordingInputs)        *)
(***************************************************************************)
\* getCommon returns the PairItem of the pair wherever it returns an item, and
\* returns one for every pair with one side undefined
Recording ==
    /\ getCommon # Undefined
    /\ \A k \in DOMAIN getCommon :
        /\ getCommon[k] # Undefined => getCommon[k] = PairItem(k[1], k[2], Len(srcSequence))
        /\ (k # <<0, 0>> /\ (k[1] = 0 \/ k[2] = 0)) => getCommon[k] # Undefined

\* the pairs <<dest position, src position>> (0 for undefined) that a list of
\* PairItems stands for
PairsOf(common) ==
    [k \in 1..Len(common) |-> <<common[k].ref \div (Len(srcSequence) + 1),
                                common[k].ref % (Len(srcSequence) + 1)>>]

\* in a list of pairs, an item folded against undefined is skippable, and an
\* item with minMatches >= 1 is in a pair with an item of the other sequence
ZeroOccurrenceOnlyIfSkippable(pairs) ==
    /\ \A k \in 1..Len(pairs) :
        /\ (pairs[k][2] = 0) => destSequence[pairs[k][1]].minMatches <= 0
        /\ (pairs[k][1] = 0) => srcSequence[pairs[k][2]].minMatches <= 0
    /\ \A d \in 1..Len(destSequence) :
        destSequence[d].minMatches >= 1 =>
            \E k \in 1..Len(pairs) : pairs[k][1] = d /\ pairs[k][2] > 0
    /\ \A c \in 1..Len(srcSequence) :
        srcSequence[c].minMatches >= 1 =>
            \E k \in 1..Len(pairs) : pairs[k][2] = c /\ pairs[k][1] > 0

\* C20: in every accepting walk (the returned one included), an item that is
\* folded against undefined, by a skip chain or after the other sequence has
\* ended, has minMatches <= 0, and every item with minMatches >= 1 is paired
\* at least once with an item of the other sequence.
C20_ZeroOccurrenceSkippable ==
    (Recording /\ CommonReturned) =>
        /\ \A acc \in AcceptedWalks(CommonSequenceAccumulator) :
                ZeroOccurrenceOnlyIfSkippable(PairsOf(acc.acc))
        /\ CommonFound => ZeroOccurrenceOnlyIfSkippable(PairsOf(getCommonSequenceResult.value))

\* a returned walk with a dest item folded against undefined and a dest item
\* with minMatches >= 1
C20_Witness ==
    /\ Recording
    /\ CommonFound
    /\ \E d \in 1..Len(destSequence) : destSequence[d].minMatches >= 1
    /\ LET pairs == PairsOf(getCommonSequenceResult.value)
       IN  /\ \E k \in 1..Len(pairs) : pairs[k][1] > 0 /\ pairs[k][2] = 0
           /\ \E k \in 1..Len(pairs) : pairs[k][1] = 0 /\ pairs[k][2] > 0

(***************************************************************************)
(* The calls of step                                                       *)
(***************************************************************************)
StepCall(i, j, a_i, b_j, acc) == [i |-> i, j |-> j, a_i |-> a_i, b_j |-> b_j, acc |-> acc]

\* the call gets past the checks of step, to the enumeration of its candidates
Enumerates(call) ==
    \/ call.i < 0
    \/ call.j < 0
    \/ /\ call.a_i # Undefined
       /\ call.b_j # Undefined
       /\ accumulatorMatches(call.acc, call.a_i, call.b_j)

\* the candidate list `steps` of a call that enumerates
CandidatesOf(a_sequence, b_sequence, call) ==
    nextSteps(a_sequence, b_sequence, call.i, call.j,
              matchedOpt(call.a_i), matchedOpt(call.b_j))

\* the call that step makes for the candidate next_step
CandidateCall(a_sequence, b_sequence, call, next_step) ==
    StepCall(next_step.a_step.index, next_step.b_step.index,
             next_step.a_step.item, next_step.b_step.item,
             nextAcc(a_sequence, b_sequence, call.i, call.j,
                     matchedOpt(call.a_i), matchedOpt(call.b_j), call.acc, next_step))

\* what a call of step returns
ResultOf(a_sequence, b_sequence, call) ==
    step(a_sequence, b_sequence, call.i, call.j, call.a_i, call.b_j, call.acc)

\* the positions of the candidates that the loop of a call reaches: every one
\* up to the first whose call returns an accumulator
TriedOf(a_sequence, b_sequence, call) ==
    LET steps == CandidatesOf(a_sequence, b_sequence, call)
    IN  {n \in 1..Len(steps) :
            \A k \in 1..(n - 1) :
                ResultOf(a_sequence, b_sequence,
                         CandidateCall(a_sequence, b_sequence, call, steps[k])) = Undefined}

\* the calls of step that are made from one call on, this call included
RECURSIVE stepCalls(_, _, _)
stepCalls(a_sequence, b_sequence, call) ==
    LET i == call.i
        j == call.j
        a_i == call.a_i
        b_j == call.b_j
        acc == call.acc
        a_i_next == IF i + 1 < Len(a_sequence) THEN At(a_sequence, i + 1) ELSE Undefined
        b_j_next == IF j + 1 < Len(b_sequence) THEN At(b_sequence, j + 1) ELSE Undefined
        steps == CandidatesOf(a_sequence, b_sequence, call)
    IN  {call} \cup
        (IF i >= 0 /\ j >= 0 /\ a_i = Undefined /\ b_j = Undefined THEN {}
         ELSE IF i >= 0 /\ j >= 0 /\ a_i = Undefined THEN
            IF isSkippable(b_j) /\ accumulatorMatches(acc, Undefined, b_j)
            THEN stepCalls(a_sequence, b_sequence,
                           StepCall(i, j + 1, a_i, b_j_next, accumulate(acc, Undefined, b_j)))
            ELSE {}
         ELSE IF i >= 0 /\ j >= 0 /\ b_j = Undefined THEN
            IF isSkippable(a_i) /\ accumulatorMatches(acc, a_i, Undefined)
            THEN stepCalls(a_sequence, b_sequence,
                           StepCall(i + 1, j, a_i_next, b_j, accumulate(acc, a_i, Undefined)))
            ELSE {}
         ELSE IF ~Enumerates(call) THEN {}
         ELSE UNION {stepCalls(a_sequence, b_sequence,
                               CandidateCall(a_sequence, b_sequence, call, steps[n]))
                     : n \in TriedOf(a_sequence, b_sequence, call)})

\* the calls of step of one query on the inputs
CallsOf(acc) ==
    stepCalls(Trackers(destSequence), Trackers(srcSequence),
              StepCall(-1, -1, Undefined, Undefined, acc))

DestTrackers == Trackers(destSequence)

SrcTrackers == Trackers(srcSequence)

\* a property of the calls of the queries that have returned
ForCallsOfReturned(P(_)) ==
    /\ ExistenceReturned => \A call \in CallsOf(MatchSequenceAccumulator) : P(call)
    /\ GroupedReturned => \A call \in CallsOf(MatchAccumulateSequenceAccumulator) : P(call)
    /\ CommonReturned => \A call \in CallsOf(CommonSequenceAccumulator) : P(call)

(***************************************************************************)
(* Skip connections                                                        *)
(***************************************************************************)
\* the accumulator of a candidate when the pair of the call, then the skipped
\* items of A, then the skipped items of B are folded
foldedAcc(call, next_step) ==
    LET cur == IF call.i >= 0 /\ call.j >= 0
               THEN accumulate(call.acc, matchedOpt(call.a_i), matchedOpt(call.b_j))
               ELSE call.acc
    IN  skipAccumulateB(skipAccumulateA(cur, DestTrackers, call.i + 1, next_step.a_step.index),
                        SrcTrackers, call.j + 1, next_step.b_step.index)

SkipsBothSides(call, next_step) ==
    next_step.a_step.index >= call.i + 2 /\ next_step.b_step.index >= call.j + 2

FoldsSkipped(call) ==
    Enumerates(call) =>
        \A n \in TriedOf(DestTrackers, SrcTrackers, call) :
            LET next_step == CandidatesOf(DestTrackers, SrcTrackers, call)[n]
            IN  CandidateCall(DestTrackers, SrcTrackers, call, next_step).acc
                    = foldedAcc(call, next_step)

\* C21: the accumulator handed to every candidate is the accumulator of the
\* call with the pair of the call folded, then every skipped A item folded
\* against undefined in ascending order, and every skipped B item folded
\* against undefined in ascending order, also when both sides skip.
C21_SkippedFolded == ForCallsOfReturned(FoldsSkipped)

(***************************************************************************)
(* Completeness                                                            *)
(***************************************************************************)
\* an order-preserving alignment: pairs of positions that satisfy the
\* predicate and never cross, with no item in more pairs than its maxMatches
\* and every unpaired item skippable
IsAlignment(pairs) ==
    /\ \A p \in pairs : <<destSequence[p[1]].item, srcSequence[p[2]].item>> \in destMatchesSrc
    /\ \A p \in pairs, q \in pairs : ~(p[1] < q[1] /\ p[2] > q[2])
    /\ \A d \in 1..Len(destSequence) :
         LET count == Cardinality({p \in pairs : p[1] = d})
         IN  /\ count = 0 => destSequence[d].minMatches <= 0
             /\ \A mx \in destSequence[d].maxMatches : count <= mx
    /\ \A s \in 1..Len(srcSequence) :
         LET count == Cardinality({p \in pairs : p[2] = s})
         IN  /\ count = 0 => srcSequence[s].minMatches <= 0
             /\ \A mx \in srcSequence[s].maxMatches : count <= mx

AlignmentExists ==
    \E pairs \in SUBSET ((1..Len(destSequence)) \X (1..Len(srcSequence))) : IsAlignment(pairs)

\* C22: matchAccumulateSequence returns a list whenever an order-preserving
\* alignment of the two sequences exists, and undefined only when none exists.
C22_Complete == GroupedReturned => (GroupedFound <=> AlignmentExists)

(***************************************************************************)
(* The existence query against the grouped query                           *)
(***************************************************************************)
\* C23: on the same sequences and predicate, matchSequence returns true
\* exactly when matchAccumulateSequence returns a list rather than undefined.
C23_QueriesAgree ==
    (ExistenceReturned /\ GroupedReturned) => (matchSequenceResult.value <=> GroupedFound)

(***************************************************************************)
(* Backtracking                                                            *)
(***************************************************************************)
\* the pairs <<a, b>> that step folds for one candidate, in the order of the
\* calls of accumulate: the pair of the call, then the skipped items
foldedPairs(a_sequence, b_sequence, call, next_step) ==
    LET i == call.i
        j == call.j
        a_to == next_step.a_step.index
        b_to == next_step.b_step.index
    IN  (IF i >= 0 /\ j >= 0
         THEN <<<<matchedOpt(call.a_i), matchedOpt(call.b_j)>>>>
         ELSE <<>>)
        \o (IF a_to >= i + 2
            THEN [k \in 1..(a_to - i - 1) |-> <<At(a_sequence, i + k), Undefined>>]
            ELSE IF b_to >= j + 2
            THEN [k \in 1..(b_to - j - 1) |-> <<Undefined, At(b_sequence, j + k)>>]
            ELSE <<>>)

\* the pairs folded from a call on along the walk that step accepts, as
\* [pairs |-> the list], or Undefined when step accepts none
RECURSIVE acceptedWalk(_, _, _)
acceptedWalk(a_sequence, b_sequence, call) ==
    LET i == call.i
        j == call.j
        a_i == call.a_i
        b_j == call.b_j
        acc == call.acc
        a_i_next == IF i + 1 < Len(a_sequence) THEN At(a_sequence, i + 1) ELSE Undefined
        b_j_next == IF j + 1 < Len(b_sequence) THEN At(b_sequence, j + 1) ELSE Undefined
        steps == CandidatesOf(a_sequence, b_sequence, call)
        after(pairs, next_call) ==
            LET rest == acceptedWalk(a_sequence, b_sequence, next_call)
            IN  IF rest = Undefined THEN Undefined ELSE [pairs |-> pairs \o rest.pairs]
    IN  IF i >= 0 /\ j >= 0 /\ a_i = Undefined /\ b_j = Undefined THEN [pairs |-> <<>>]
        ELSE IF i >= 0 /\ j >= 0 /\ a_i = Undefined THEN
            IF isSkippable(b_j) /\ accumulatorMatches(acc, Undefined, b_j)
            THEN after(<<<<Undefined, b_j>>>>,
                       StepCall(i, j + 1, a_i, b_j_next, accumulate(acc, Undefined, b_j)))
            ELSE Undefined
        ELSE IF i >= 0 /\ j >= 0 /\ b_j = Undefined THEN
            IF isSkippable(a_i) /\ accumulatorMatches(acc, a_i, Undefined)
            THEN after(<<<<a_i, Undefined>>>>,
                       StepCall(i + 1, j, a_i_next, b_j, accumulate(acc, a_i, Undefined)))
            ELSE Undefined
        ELSE IF ~Enumerates(call) THEN Undefined
        ELSE LET accepted == {n \in TriedOf(a_sequence, b_sequence, call) :
                                ResultOf(a_sequence, b_sequence,
                                         CandidateCall(a_sequence, b_sequence, call, steps[n]))
                                    # Undefined}
             IN  IF accepted = {} THEN Undefined
                 ELSE LET n == CHOOSE n \in accepted : TRUE
                      IN  after(foldedPairs(a_sequence, b_sequence, call, steps[n]),
                                CandidateCall(a_sequence, b_sequence, call, steps[n]))

\* acc.accumulate(pairs[k]).accumulate(pairs[k + 1])...
RECURSIVE foldPairs(_, _, _)
foldPairs(acc, pairs, k) ==
    IF k > Len(pairs) THEN acc
    ELSE foldPairs(accumulate(acc, pairs[k][1], pairs[k][2]), pairs, k + 1)

(***************************************************************************)
(* The queries on a heap (SpecHeap).  Every `new`, array literal and       *)
(* object literal of the queries allocates an object of memory.objects; a  *)
(* reference is the position of its object, 0 is undefined.  The objects:  *)
(* a SequenceItemMatchTracker, an array [elements |-> ...], an object      *)
(* { destItem, matchedSrcItems } whose matchedSrcItems is the reference of *)
(* an array, and an accumulator whose acc is a boolean or the reference    *)
(* of an array.  The SequenceItem objects are the caller's and are never   *)
(* written; they stay values with a ref.  A write through a reference      *)
(* changes the object for every holder of the reference.  The lists left   *)
(* and right, which only the log lines read, are left out here.            *)
(* mem is the heap and the log of the calls of accumulate of one query.    *)
(* What a call returns is bound once, as x \in {call}, and read from x.     *)
(***************************************************************************)
\* most items (dest and src together) of the inputs of SpecHeap
MaxHeapItems == 4

\* most calls of the queries on one heap
MaxHeapCalls == 2

\* new, [...] and {...}: the object takes the next free position
alloc(mem, object) ==
    [mem |-> [mem EXCEPT !.objects = Append(@, object)], ref |-> Len(mem.objects) + 1]

\* a tracker cache: a new tracker starts at the highest count of the trackers
\* that are on the heap for its sequenceItem
newTrackersKept(mem, sequence) ==
    LET counts(item) ==
            {0} \cup {mem.objects[r].matchesCounter :
                        r \in {p \in 1..Len(mem.objects) :
                                /\ "matchesCounter" \in DOMAIN mem.objects[p]
                                /\ mem.objects[p].sequenceItem = item}}
        highest(item) == CHOOSE c \in counts(item) : \A d \in counts(item) : d <= c
    IN  [mem |-> [mem EXCEPT !.objects =
                    @ \o [k \in 1..Len(sequence) |->
                            SequenceItemMatchTracker(sequence[k], highest(sequence[k]))]],
         refs |-> [k \in 1..Len(sequence) |-> Len(mem.objects) + k]]

\* sequence.map((item) => new SequenceItemMatchTracker(item)), as the
\* references of the new trackers
newTrackers(mem, sequence) ==
    [mem |-> [mem EXCEPT !.objects = @ \o Trackers(sequence)],
     refs |-> [k \in 1..Len(sequence) |-> Len(mem.objects) + k]]

\* what an accumulator holds: the accumulator with the arrays and objects
\* that its acc leads to in the place of their references
valueOnHeap(objects, acc) ==
    LET this == objects[acc]
    IN  IF this.kind = "MatchSequenceAccumulator" THEN this
        ELSE IF this.kind = "CommonSequenceAccumulator"
        THEN [this EXCEPT !.acc = objects[this.acc].elements]
        ELSE [this EXCEPT !.acc =
                [k \in 1..Len(objects[this.acc].elements) |->
                    LET group == objects[objects[this.acc].elements[k]]
                    IN  DestItemMatches(group.destItem,
                                        objects[group.matchedSrcItems].elements)]]

\* copy of MatchAccumulateSequenceAccumulator as cp.acc = [...this.acc]: the
\* new array holds the objects { destItem, matchedSrcItems } of this
copyOnHeapShallow(mem, this) ==
    LET acc == mem.objects[this]
    IN  IF acc.kind = "MatchSequenceAccumulator" THEN alloc(mem, acc)
        ELSE LET array == alloc(mem, mem.objects[acc.acc])
             IN  alloc(array.mem, [acc EXCEPT !.acc = array.ref])

\* this.copy() of the three accumulators.  (The array that the constructor
\* of cp allocates is replaced at once and nothing refers to it.)
copyOnHeap(mem, this) ==
    LET objects == mem.objects
        acc == objects[this]
    IN  IF acc.kind = "MatchSequenceAccumulator" THEN
            \* cp.acc = this.acc
            alloc(mem, acc)
        ELSE IF acc.kind = "CommonSequenceAccumulator" THEN
            \* cp.acc = [...this.acc]
            LET array == alloc(mem, objects[acc.acc])
            IN  alloc(array.mem, [acc EXCEPT !.acc = array.ref])
        ELSE
            \* cp.acc = this.acc.map((acc) => ({ destItem: acc.destItem,
            \*                                   matchedSrcItems: [...acc.matchedSrcItems] }))
            LET groups == objects[acc.acc].elements
                n == Len(groups)
                base == Len(objects)
                copies == [k \in 1..(2 * n) |->
                            IF k % 2 = 1
                            THEN objects[objects[groups[(k + 1) \div 2]].matchedSrcItems]
                            ELSE DestItemMatches(objects[groups[k \div 2]].destItem,
                                                 base + k - 1)]
                array == [elements |-> [k \in 1..n |-> base + 2 * k]]
            IN  [mem |-> [mem EXCEPT !.objects =
                            @ \o copies \o <<array, [acc EXCEPT !.acc = base + 2 * n + 1]>>],
                 ref |-> base + 2 * n + 2]

\* this.accumulate(dest, src) of the three accumulators; dest and src are
\* references of trackers.  The call is logged with what it was called on,
\* what it returned, and whether this holds after the call what it held
\* before.
accumulateOnHeap(mem, this, dest, src) ==
    LET \* the heap after the writes to the copy, and the copy
        written(copied) ==
            LET copy == copied.ref
                objects == copied.mem.objects
                cp == objects[copy]
                destType == IF dest = 0 THEN Undefined ELSE objects[dest]
                srcType == IF src = 0 THEN Undefined ELSE objects[src]
                \* array.push(element)
                push(array, element) ==
                    [objects EXCEPT ![array].elements = Append(@, element)]
                \* copy.acc.push({ destItem: destType.sequenceItem, matchedSrcItems: items })
                pushGroup(items) ==
                    [objects \o <<[elements |-> items],
                                  DestItemMatches(destType.sequenceItem, Len(objects) + 1)>>
                        EXCEPT ![cp.acc].elements = Append(@, Len(objects) + 2)]
            IN  [ref |-> copy,
                 dest |-> destType,
                 src |-> srcType,
                 objects |->
                    IF cp.kind = "MatchSequenceAccumulator" THEN
                        IF matches(cp, destType, srcType)
                        THEN [objects EXCEPT ![copy].acc = TRUE]
                        ELSE objects
                    ELSE IF cp.kind = "CommonSequenceAccumulator" THEN
                        LET common == commonOf(destType, srcType)
                            elements == objects[cp.acc].elements
                            n == Len(elements)
                            m == Len(objects[objects[this].acc].elements)
                        IN  IF /\ common # Undefined
                               /\ \/ n = 0
                                  \/ ~isRepeated(common)
                                  \/ ~isRepeated(elements[m])
                                  \/ elements[n] # common
                            THEN push(cp.acc, common)
                            ELSE objects
                    ELSE
                        LET groups == objects[cp.acc].elements
                            n == Len(groups)
                            lastAcc == objects[groups[n]]
                        IN  IF destType # Undefined /\ srcType # Undefined THEN
                                IF n = 0 THEN pushGroup(<<srcType.sequenceItem>>)
                                ELSE IF destType.sequenceItem = lastAcc.destItem
                                THEN push(lastAcc.matchedSrcItems, srcType.sequenceItem)
                                ELSE pushGroup(<<srcType.sequenceItem>>)
                            ELSE IF destType = Undefined /\ srcType # Undefined THEN
                                objects
                            ELSE IF destType # Undefined /\ srcType = Undefined THEN
                                IF n = 0 THEN pushGroup(<<>>)
                                ELSE IF destType.sequenceItem # lastAcc.destItem
                                THEN pushGroup(<<>>)
                                ELSE objects
                            ELSE objects]
        logged(after) ==
            [mem |-> [objects |-> after.objects,
                      log |-> Append(mem.log,
                                     [this |-> this, dest |-> after.dest, src |-> after.src,
                                      copy |-> after.ref,
                                      kept |-> valueOnHeap(after.objects, this)
                                                  = valueOnHeap(mem.objects, this)])],
             ref |-> after.ref]
    IN  CHOOSE returned \in
            {logged(after) :
                after \in {written(copied) : copied \in {copyOnHeap(mem, this)}}} : TRUE

\* the two for loops over the skipped items, from k on: onA tells the loop
\* over a_sequence, new_acc.accumulate(a_sequence[k], undefined), from the
\* loop over b_sequence, new_acc.accumulate(undefined, b_sequence[k])
RECURSIVE skipAccumulateOnHeap(_, _, _, _, _)
skipAccumulateOnHeap(new_acc, sequence, onA, k, to) ==
    IF k < to
    THEN CHOOSE skipped \in
            {skipAccumulateOnHeap(next_acc, sequence, onA, k + 1, to) :
                next_acc \in {accumulateOnHeap(new_acc.mem, new_acc.ref,
                                               IF onA THEN At(sequence, k) ELSE 0,
                                               IF onA THEN 0 ELSE At(sequence, k))}} : TRUE
    ELSE new_acc

RECURSIVE stepOnHeap(_, _, _, _, _, _, _, _)

\* the loop `for (const next_step of steps)` of step, from position n on; a_i
\* and b_j are the references of the trackers after matched().  The heap
\* that the call for one candidate leaves is the heap of the next candidate.
RECURSIVE forNextStepOnHeap(_, _, _, _, _, _, _, _, _, _)
forNextStepOnHeap(mem, a_sequence, b_sequence, i, j, a_i, b_j, acc, steps, n) ==
    IF n > Len(steps) THEN [mem |-> mem, ref |-> 0]
    ELSE LET next_step == steps[n]
             \* new_acc after the for loops over the skipped items
             skipped(new_acc) ==
                IF next_step.a_step.index >= i + 2
                THEN skipAccumulateOnHeap(new_acc, a_sequence, TRUE, i + 1,
                                          next_step.a_step.index)
                ELSE IF next_step.b_step.index >= j + 2
                THEN skipAccumulateOnHeap(new_acc, b_sequence, FALSE, j + 1,
                                          next_step.b_step.index)
                ELSE new_acc
             call(new_acc) ==
                stepOnHeap(new_acc.mem, a_sequence, b_sequence,
                           next_step.a_step.index, next_step.b_step.index,
                           next_step.a_step.item, next_step.b_step.item, new_acc.ref)
         IN  CHOOSE returned \in
                {IF step_res.ref # 0 THEN step_res
                 ELSE forNextStepOnHeap(step_res.mem, a_sequence, b_sequence, i, j, a_i, b_j,
                                        acc, steps, n + 1) :
                    step_res \in
                        {call(new_acc) :
                            new_acc \in
                                {skipped(first_acc) :
                                    first_acc \in
                                        {IF i >= 0 /\ j >= 0
                                         THEN accumulateOnHeap(mem, acc, a_i, b_j)
                                         ELSE [mem |-> mem, ref |-> acc]}}}} : TRUE

\* step on references: a_sequence and b_sequence hold the references of the
\* trackers, a_i, b_j and acc are references; the result is the heap that
\* the call leaves and the reference it returns
stepOnHeap(mem, a_sequence, b_sequence, i, j, a_i, b_j, acc) ==
    LET objects == mem.objects
        i_next == i + 1
        j_next == j + 1
        a_i_next == IF i_next < Len(a_sequence) THEN At(a_sequence, i_next) ELSE 0
        b_j_next == IF j_next < Len(b_sequence) THEN At(b_sequence, j_next) ELSE 0
        a == IF a_i = 0 THEN Undefined ELSE objects[a_i]
        b == IF b_j = 0 THEN Undefined ELSE objects[b_j]
        undefined == [mem |-> mem, ref |-> 0]
        \* a_i = a_i?.matched(); b_j = b_j?.matched(): the heap with the new
        \* trackers, and their references
        a_matched == IF a_i = 0 THEN <<>> ELSE <<matched(a)>>
        b_matched == IF b_j = 0 THEN <<>> ELSE <<matched(b)>>
        matchedOnHeap ==
            [objects |-> objects \o a_matched \o b_matched,
             a_i |-> IF a_i = 0 THEN 0 ELSE Len(objects) + 1,
             b_j |-> IF b_j = 0 THEN 0 ELSE Len(objects) + Len(a_matched) + 1]
        \* getNextStepsForItem, its for loop as the run of skippable items
        \* from k + 1 on; os is the heap after the calls of matched
        getNextStepsForItemOnHeap(os, k, t_i, t_i_next, t_sequence) ==
            LET skipped == {l \in (k + 1)..(Len(t_sequence) - 2) :
                              \A s \in (k + 1)..l : isSkippable(os[At(t_sequence, s)])}
            IN  (IF t_i # 0 /\ hasMoreMatches(os[t_i]) THEN <<NextStep(k, t_i)>> ELSE <<>>)
                    \o <<NextStep(k + 1, t_i_next)>>
                    \o [l \in 1..Cardinality(skipped) |->
                            NextStep(k + 1 + l, At(t_sequence, k + 1 + l))]
        steps(os, t_i, t_j) ==
            crossSteps(getNextStepsForItemOnHeap(os, i, t_i, a_i_next, a_sequence),
                       getNextStepsForItemOnHeap(os, j, t_j, b_j_next, b_sequence),
                       i, j, 1, 1)
    IN  IF i >= 0 /\ j >= 0 /\ a_i = 0 /\ b_j = 0 THEN
            [mem |-> mem, ref |-> acc]
        ELSE IF i >= 0 /\ j >= 0 /\ a_i = 0 /\ b_j # 0 THEN
            IF isSkippable(b) /\ accumulatorMatches(objects[acc], Undefined, b)
            THEN CHOOSE returned \in
                    {stepOnHeap(new_acc.mem, a_sequence, b_sequence, i, j_next, a_i, b_j_next,
                                new_acc.ref) :
                        new_acc \in {accumulateOnHeap(mem, acc, 0, b_j)}} : TRUE
            ELSE undefined
        ELSE IF i >= 0 /\ j >= 0 /\ a_i # 0 /\ b_j = 0 THEN
            IF isSkippable(a) /\ accumulatorMatches(objects[acc], a, Undefined)
            THEN CHOOSE returned \in
                    {stepOnHeap(new_acc.mem, a_sequence, b_sequence, i_next, j, a_i_next, b_j,
                                new_acc.ref) :
                        new_acc \in {accumulateOnHeap(mem, acc, a_i, 0)}} : TRUE
            ELSE undefined
        ELSE IF i >= 0 /\ j >= 0 /\ ~accumulatorMatches(objects[acc], a, b) THEN
            undefined
        ELSE
            CHOOSE returned \in
                {forNextStepOnHeap([mem EXCEPT !.objects = t.objects], a_sequence, b_sequence,
                                   i, j, t.a_i, t.b_j, acc, t.steps, 1) :
                    t \in {[objects |-> m.objects, a_i |-> m.a_i, b_j |-> m.b_j,
                            steps |-> steps(m.objects, m.a_i, m.b_j)] :
                                m \in {matchedOnHeap}}} : TRUE

\* one call of matchSequence, matchAccumulateSequence or getCommonSequence on
\* the heap `objects`: the heap it leaves and the record of the call, with
\* the references of the accumulator it made (initial) and of the
\* accumulator that step returned (acc), and the value it returned (in the
\* form of the results of the queries above)
queryOnHeap(objects, query, dest, src) ==
    LET \* new MatchSequenceAccumulator(), ...: the constructor sets acc to
        \* false or to a new array
        newAccumulator(mem) ==
            LET array == alloc(mem, [elements |-> <<>>])
            IN  IF query = "matchSequence" THEN alloc(mem, MatchSequenceAccumulator)
                ELSE IF query = "matchAccumulateSequence"
                THEN alloc(array.mem,
                           [MatchAccumulateSequenceAccumulator EXCEPT !.acc = array.ref])
                ELSE alloc(array.mem, [CommonSequenceAccumulator EXCEPT !.acc = array.ref])
        arguments(destTrackers) ==
            [a_sequence |-> destTrackers.refs, b |-> newTrackers(destTrackers.mem, src)]
        traverse(args) ==
            [initial |-> args.acc.ref,
             acc |-> stepOnHeap(args.acc.mem, args.a_sequence, args.b.refs,
                                -1, -1, 0, 0, args.acc.ref)]
        returned(result) ==
            LET acc == result.acc
                value == valueOnHeap(acc.mem.objects, acc.ref).acc
            IN  [objects |-> acc.mem.objects,
                 call |-> [query |-> query,
                           initial |-> result.initial,
                           acc |-> acc.ref,
                           log |-> acc.mem.log,
                           returned |-> IF query = "matchSequence"
                                        THEN [value |-> acc.ref # 0 /\ value = TRUE]
                                        ELSE IF acc.ref = 0 THEN Undefined
                                        ELSE [value |-> value]]]
    IN  CHOOSE called \in
            {returned(result) :
                result \in
                    {traverse(args) :
                        args \in
                            {[a_sequence |-> trackers.a_sequence, b |-> trackers.b,
                              acc |-> newAccumulator(trackers.b.mem)] :
                                trackers \in
                                    {arguments(destTrackers) :
                                        destTrackers \in
                                            {newTrackers([objects |-> objects, log |-> <<>>],
                                                         dest)}}}}} : TRUE

\* a caller with an empty heap
InitHeap ==
    /\ NoUnits
    /\ memory = [objects |-> <<>>, calls |-> <<>>]
    /\ \/ ExampleInputs
       \/ \E n \in 0..MaxHeapItems : \E m \in 0..(MaxHeapItems - n) : WalkInputs(n, m)

\* the caller calls a query; the objects of the calls before stay on the heap
CallOnHeap(query) ==
    /\ Len(memory.calls) < MaxHeapCalls
    /\ query = "getCommonSequence" => getCommon # Undefined
    /\ \E called \in {queryOnHeap(memory.objects, query, destSequence, srcSequence)} :
            memory' = [objects |-> called.objects,
                       calls |-> Append(memory.calls, called.call)]
    /\ UNCHANGED <<destSequence, srcSequence, destMatchesSrc, getCommon,
                   matchSequenceResult, matchAccumulateSequenceResult,
                   getCommonSequenceResult, units>>

NextHeap ==
    \E query \in {"matchSequence", "matchAccumulateSequence", "getCommonSequence"} :
        CallOnHeap(query)

SpecHeap == InitHeap /\ [][NextHeap]_vars

(***************************************************************************)
(* Determinism (SpecHeap)                                                  *)
(***************************************************************************)
\* the value a query returns for the accumulator that step returned, read
\* from a heap
ReturnedFrom(objects, call) ==
    IF call.query = "matchSequence"
    THEN [value |-> call.acc # 0 /\ valueOnHeap(objects, call.acc).acc = TRUE]
    ELSE IF call.acc = 0 THEN Undefined
    ELSE [value |-> valueOnHeap(objects, call.acc).acc]

\* the calls of accumulate of a call of a query, in order, as the pairs of
\* trackers they were given
FoldsOf(call) == [k \in 1..Len(call.log) |-> <<call.log[k].dest, call.log[k].src>>]

\* C19: two calls of the same query on the same sequences and the same
\* predicate (or getCommon) return the same value and make the same calls of
\* accumulate on trackers with the same counts, although the objects of the
\* first call are on the heap of the second; and what a call returned is on
\* the heap unchanged after every later call.
C19_Deterministic ==
    /\ \A c \in 1..Len(memory.calls) :
            ReturnedFrom(memory.objects, memory.calls[c]) = memory.calls[c].returned
    /\ \A c, d \in 1..Len(memory.calls) :
            memory.calls[c].query = memory.calls[d].query =>
                /\ memory.calls[c].returned = memory.calls[d].returned
                /\ FoldsOf(memory.calls[c]) = FoldsOf(memory.calls[d])

\* matchAccumulateSequence has been called twice and has returned groups from
\* two accumulators, and a tracker that counts a match is on the heap from
\* the first call
C19_Witness ==
    /\ Len(memory.calls) = 2
    /\ \A c \in 1..2 :
        /\ memory.calls[c].query = "matchAccumulateSequence"
        /\ memory.calls[c].returned # Undefined
        /\ memory.calls[c].returned.value # <<>>
    /\ memory.calls[1].acc < memory.calls[2].initial
    /\ \E r \in 1..memory.calls[1].acc :
        /\ "matchesCounter" \in DOMAIN memory.objects[r]
        /\ memory.objects[r].matchesCounter > 0

(***************************************************************************)
(* Backtracking isolation (SpecHeap)                                       *)
(***************************************************************************)
\* the accumulator a query starts from
InitialOf(query) ==
    IF query = "matchSequence" THEN MatchSequenceAccumulator
    ELSE IF query = "matchAccumulateSequence" THEN MatchAccumulateSequenceAccumulator
    ELSE CommonSequenceAccumulator

\* the calls of accumulate that led from the initial accumulator to the
\* accumulator acc, first to last, as positions in the log: the call that
\* returned acc, before it the call that returned what that call was called
\* on, and so on
RECURSIVE foldsInto(_, _)
foldsInto(log, acc) ==
    LET made == {k \in 1..Len(log) : log[k].copy = acc}
    IN  IF made = {} THEN <<>>
        ELSE LET k == CHOOSE k \in made : TRUE
             IN  Append(foldsInto(log, log[k].this), k)

\* the fold, from the initial accumulator, of the pairs of the calls of
\* accumulate that led to acc
FoldInto(call, acc) ==
    LET walk == foldsInto(call.log, acc)
    IN  foldPairs(InitialOf(call.query),
                  [k \in 1..Len(walk) |-> <<call.log[walk[k]].dest, call.log[walk[k]].src>>],
                  1)

\* the value a query returns for an accumulator
ReturnedFor(query, acc) ==
    IF query = "matchSequence" THEN [value |-> acc # Undefined /\ acc.acc = TRUE]
    ELSE IF acc = Undefined THEN Undefined
    ELSE [value |-> acc.acc]

\* C24: the value a query returns is the fold, in order and from the initial
\* accumulator, of exactly the pairs of the calls of accumulate that led to
\* the accumulator step returned; every accumulator made during the query,
\* on the accepted walk or under a rejected candidate, holds when the query
\* returns (and after later queries) the fold of the pairs that led to it
\* and nothing of what was folded elsewhere; and no call of accumulate
\* changes what the accumulator it is called on holds.
C24_BacktrackingIsolation ==
    \A c \in 1..Len(memory.calls) :
        LET call == memory.calls[c]
        IN  /\ call.returned
                  = ReturnedFor(call.query,
                                IF call.acc = 0 THEN Undefined ELSE FoldInto(call, call.acc))
            /\ \A k \in 1..Len(call.log) :
                /\ call.log[k].kept
                /\ valueOnHeap(memory.objects, call.log[k].copy)
                      = FoldInto(call, call.log[k].copy)
            /\ valueOnHeap(memory.objects, call.initial) = InitialOf(call.query)

\* matchAccumulateSequence returned groups after a rejected candidate had
\* folded a pair into the last group of an accumulator of the accepted walk:
\* accumulate was called, for a candidate that was rejected, on an
\* accumulator that led to the returned one and whose last group was of the
\* dest item of the pair
C24_Witness ==
    \E c \in 1..Len(memory.calls) :
        LET call == memory.calls[c]
            accepted == foldsInto(call.log, call.acc)
        IN  /\ call.query = "matchAccumulateSequence"
            /\ call.acc # 0
            /\ \E k \in 1..Len(call.log), l \in 1..Len(accepted) :
                LET held == valueOnHeap(memory.objects, call.log[k].this).acc
                IN  /\ \A x \in 1..Len(accepted) : accepted[x] # k
                    /\ call.log[k].this = call.log[accepted[l]].copy
                    /\ call.log[k].dest # Undefined
                    /\ call.log[k].src # Undefined
                    /\ held # <<>>
                    /\ held[Len(held)].destItem = call.log[k].dest.sequenceItem

(***************************************************************************)
(* The history lists left and right                                        *)
(***************************************************************************)
History(left, right) == [left |-> left, right |-> right]

\* what the skip loops of one candidate push to new_left and new_right
skipPushes(a_sequence, b_sequence, call, next_step) ==
    LET a_to == next_step.a_step.index
        b_to == next_step.b_step.index
    IN  IF a_to >= call.i + 2
        THEN History([k \in 1..(a_to - call.i - 1) |-> At(a_sequence, call.i + k)],
                     [k \in 1..(a_to - call.i - 1) |-> Undefined])
        ELSE IF b_to >= call.j + 2
        THEN History([k \in 1..(b_to - call.j - 1) |-> Undefined],
                     [k \in 1..(b_to - call.j - 1) |-> At(b_sequence, call.j + k)])
        ELSE History(<<>>, <<>>)

\* the array that left (or right) names when candidate n is reached in a call
\* with i < 0 or j < 0: new_left is then the array left itself, and the pushes
\* of the candidates before n went to that same array
RECURSIVE sharedHistory(_, _, _, _, _)
sharedHistory(a_sequence, b_sequence, call, history, n) ==
    IF n <= 1 THEN history
    ELSE LET before == sharedHistory(a_sequence, b_sequence, call, history, n - 1)
             pushes == skipPushes(a_sequence, b_sequence, call,
                                  CandidatesOf(a_sequence, b_sequence, call)[n - 1])
         IN  History(before.left \o pushes.left, before.right \o pushes.right)

\* new_left and new_right as step passes them to the call of candidate n, the
\* candidates being explored in order
newHistory(a_sequence, b_sequence, call, history, n) ==
    LET pushes == skipPushes(a_sequence, b_sequence, call,
                             CandidatesOf(a_sequence, b_sequence, call)[n])
        start == IF call.i >= 0 /\ call.j >= 0
                 THEN History(history.left \o <<matchedOpt(call.a_i)>>,
                              history.right \o <<matchedOpt(call.b_j)>>)
                 ELSE sharedHistory(a_sequence, b_sequence, call, history, n)
    IN  History(start.left \o pushes.left, start.right \o pushes.right)

\* new_left and new_right of candidate n when no other candidate of the call
\* has been explored
newHistoryAlone(a_sequence, b_sequence, call, history, n) ==
    LET pushes == skipPushes(a_sequence, b_sequence, call,
                             CandidatesOf(a_sequence, b_sequence, call)[n])
        start == IF call.i >= 0 /\ call.j >= 0
                 THEN History(history.left \o <<matchedOpt(call.a_i)>>,
                              history.right \o <<matchedOpt(call.b_j)>>)
                 ELSE history
    IN  History(start.left \o pushes.left, start.right \o pushes.right)

\* the candidates that are explored from a call on, each with the history
\* lists it is passed and the lists it is passed when explored alone
RECURSIVE exploredCandidates(_, _, _, _)
exploredCandidates(a_sequence, b_sequence, call, history) ==
    LET i == call.i
        j == call.j
        a_i == call.a_i
        b_j == call.b_j
        acc == call.acc
        a_i_next == IF i + 1 < Len(a_sequence) THEN At(a_sequence, i + 1) ELSE Undefined
        b_j_next == IF j + 1 < Len(b_sequence) THEN At(b_sequence, j + 1) ELSE Undefined
        steps == CandidatesOf(a_sequence, b_sequence, call)
        appended == History(history.left \o <<a_i>>, history.right \o <<b_j>>)
    IN  IF i >= 0 /\ j >= 0 /\ a_i = Undefined /\ b_j = Undefined THEN {}
        ELSE IF i >= 0 /\ j >= 0 /\ a_i = Undefined THEN
            IF isSkippable(b_j) /\ accumulatorMatches(acc, Undefined, b_j)
            THEN exploredCandidates(a_sequence, b_sequence,
                    StepCall(i, j + 1, a_i, b_j_next, accumulate(acc, Undefined, b_j)),
                    appended)
            ELSE {}
        ELSE IF i >= 0 /\ j >= 0 /\ b_j = Undefined THEN
            IF isSkippable(a_i) /\ accumulatorMatches(acc, a_i, Undefined)
            THEN exploredCandidates(a_sequence, b_sequence,
                    StepCall(i + 1, j, a_i_next, b_j, accumulate(acc, a_i, Undefined)),
                    appended)
            ELSE {}
        ELSE IF ~Enumerates(call) THEN {}
        ELSE UNION {
                {[call |-> call, n |-> n,
                  passed |-> newHistory(a_sequence, b_sequence, call, history, n),
                  alone |-> newHistoryAlone(a_sequence, b_sequence, call, history, n)]}
                \cup exploredCandidates(a_sequence, b_sequence,
                        CandidateCall(a_sequence, b_sequence, call, steps[n]),
                        newHistory(a_sequence, b_sequence, call, history, n))
                : n \in TriedOf(a_sequence, b_sequence, call)}

\* step(-1, -1, undefined, undefined, acc, '', [], [])
ExploredOf(acc) ==
    exploredCandidates(DestTrackers, SrcTrackers,
                       StepCall(-1, -1, Undefined, Undefined, acc), History(<<>>, <<>>))

\* C25: what a candidate is passed (the history lists left and right
\* included) is what it is passed when no sibling has been explored before it.
C25_SiblingsIndependent ==
    /\ ExistenceReturned =>
          \A c \in ExploredOf(MatchSequenceAccumulator) : c.passed = c.alone
    /\ GroupedReturned =>
          \A c \in ExploredOf(MatchAccumulateSequenceAccumulator) : c.passed = c.alone

(***************************************************************************)
(* The candidates of a call                                                *)
(***************************************************************************)
\* the targets k + 2, k + 3, ... of a side for as long as every item strictly
\* between k and the target is skippable
ChainTargets(t_sequence, k) ==
    {t \in (k + 2)..Len(t_sequence) :
        \A m \in (k + 1)..(t - 1) : isSkippable(At(t_sequence, m))}

\* the options of a side at index k: k iff the incremented tracker
\* hasMoreMatches, then k + 1, then the targets of the chain in ascending order
SideOptions(t_sequence, k, t_k) ==
    LET targets == ChainTargets(t_sequence, k)
        item(t) == IF t < Len(t_sequence) THEN At(t_sequence, t) ELSE Undefined
    IN  (IF t_k # Undefined /\ hasMoreMatches(t_k) THEN <<NextStep(k, t_k)>> ELSE <<>>)
        \o <<NextStep(k + 1, item(k + 1))>>
        \o [n \in 1..Cardinality(targets) |-> NextStep(k + 1 + n, item(k + 1 + n))]

\* the cross product of the options, A outer and B inner, minus the pair (i, j)
CrossProductMinus(a_options, b_options, i, j) ==
    LET lb == Len(b_options)
        all == [n \in 1..(Len(a_options) * lb) |->
                    [a_step |-> a_options[((n - 1) \div lb) + 1],
                     b_step |-> b_options[((n - 1) % lb) + 1]]]
        moves(c) == c.a_step.index # i \/ c.b_step.index # j
    IN  SelectSeq(all, moves)

EnumeratesAsStated(call) ==
    Enumerates(call) =>
        CandidatesOf(DestTrackers, SrcTrackers, call)
            = CrossProductMinus(SideOptions(DestTrackers, call.i, matchedOpt(call.a_i)),
                                SideOptions(SrcTrackers, call.j, matchedOpt(call.b_j)),
                                call.i, call.j)

\* C26: the candidates of every call that passes the rejection checks are the
\* cross product (A outer, B inner) minus (i, j) of the options of each side:
\* k iff the incremented tracker hasMoreMatches, then k + 1, then k + 2,
\* k + 3, ... while every item strictly between k and the target is skippable.
C26_CandidateEnumeration == ForCallsOfReturned(EnumeratesAsStated)

(***************************************************************************)
(* The branching factor                                                    *)
(***************************************************************************)
\* a_steps of a call that enumerates
AStepsOf(call) ==
    getNextStepsForItem(call.i, matchedOpt(call.a_i),
                        IF call.i + 1 < Len(DestTrackers) THEN At(DestTrackers, call.i + 1)
                        ELSE Undefined,
                        DestTrackers)

\* b_steps of a call that enumerates
BStepsOf(call) ==
    getNextStepsForItem(call.j, matchedOpt(call.b_j),
                        IF call.j + 1 < Len(SrcTrackers) THEN At(SrcTrackers, call.j + 1)
                        ELSE Undefined,
                        SrcTrackers)

AtMostThreeOptions(call) ==
    Enumerates(call) =>
        /\ Len(AStepsOf(call)) <= 3
        /\ Len(BStepsOf(call)) <= 3
        /\ Len(CandidatesOf(DestTrackers, SrcTrackers, call)) <= 9

\* C27 as stated: every call enumerates at most 3 options per side and at
\* most 9 candidates.
C27_AtMostThree == ForCallsOfReturned(AtMostThreeOptions)

\* the options of a side at index k: one to stay, one for k + 1, and one for
\* each item after k + 1
OptionsBound(t_sequence, k) == 2 + Max({0, Len(t_sequence) - k - 2})

OptionsWithinLength(call) ==
    Enumerates(call) =>
        /\ Len(AStepsOf(call)) <= OptionsBound(DestTrackers, call.i)
        /\ Len(BStepsOf(call)) <= OptionsBound(SrcTrackers, call.j)
        /\ Len(CandidatesOf(DestTrackers, SrcTrackers, call))
                <= Len(AStepsOf(call)) * Len(BStepsOf(call))

\* C27 (amended): a call at (i, j) enumerates at most 2 + max(0, |A| - i - 2)
\* options for A and 2 + max(0, |B| - j - 2) for B, and at most the product
\* of the two numbers of options as candidates; the bound grows with the
\* lengths of the sequences.
C27_OptionsWithinLength == ForCallsOfReturned(OptionsWithinLength)

\* a call that enumerates four options for A
C27_Witness ==
    /\ GroupedReturned
    /\ \E call \in CallsOf(MatchAccumulateSequenceAccumulator) :
            /\ Enumerates(call)
            /\ Len(AStepsOf(call)) = 4
            /\ Len(CandidatesOf(DestTrackers, SrcTrackers, call)) >= 4

(***************************************************************************)
(* The order of exploration                                                *)
(***************************************************************************)
\* what the call of step for candidate n of a call returns
CandidateResult(call, n) ==
    ResultOf(DestTrackers, SrcTrackers,
             CandidateCall(DestTrackers, SrcTrackers, call,
                           CandidatesOf(DestTrackers, SrcTrackers, call)[n]))

\* the positions of the candidates of a call whose exploration returns an
\* accumulator
Accepting(call) ==
    {n \in 1..Len(CandidatesOf(DestTrackers, SrcTrackers, call)) :
        CandidateResult(call, n) # Undefined}

Min(S) == CHOOSE x \in S : \A y \in S : x <= y

FirstSuccessWins(call) ==
    Enumerates(call) =>
        ResultOf(DestTrackers, SrcTrackers, call)
            = IF Accepting(call) = {} THEN Undefined
              ELSE CandidateResult(call, Min(Accepting(call)))

\* C28: a call that enumerates candidates returns the accumulator of the
\* first candidate, in enumeration order, whose exploration returns one, and
\* undefined when none does.
C28_FirstSuccessWins == ForCallsOfReturned(FirstSuccessWins)

\* the initial call of getCommonSequence has a rejected candidate, then an
\* accepted one, then one accepted with another accumulator
C28_Witness ==
    /\ Recording
    /\ CommonFound
    /\ LET call == StepCall(-1, -1, Undefined, Undefined, CommonSequenceAccumulator)
       IN  /\ Min(Accepting(call)) > 1
           /\ \E n \in Accepting(call) :
                CandidateResult(call, n) # CandidateResult(call, Min(Accepting(call)))

(***************************************************************************)
(* Indices and trackers of the calls                                       *)
(***************************************************************************)
\* the tracker passed for index k of a side is absent exactly at the end of
\* the side, and is otherwise a tracker of the item at index k
TrackerAtIndex(t_sequence, k, t_k) ==
    /\ k \in 0..Len(t_sequence)
    /\ t_k = Undefined <=> k = Len(t_sequence)
    /\ t_k # Undefined => t_k.sequenceItem = At(t_sequence, k).sequenceItem

InitialCall(call) ==
    call.i = -1 /\ call.j = -1 /\ call.a_i = Undefined /\ call.b_j = Undefined

\* the call returns its accumulator at the check `both have terminated`
Accepts(call) ==
    call.i >= 0 /\ call.j >= 0 /\ call.a_i = Undefined /\ call.b_j = Undefined

IndicesInRange(call) ==
    /\ \/ InitialCall(call)
       \/ /\ TrackerAtIndex(DestTrackers, call.i, call.a_i)
          /\ TrackerAtIndex(SrcTrackers, call.j, call.b_j)
    /\ Accepts(call) => (call.i = Len(DestTrackers) /\ call.j = Len(SrcTrackers))

\* C29: every call of step other than the initial (-1, -1) has
\* 0 <= i <= |A| and 0 <= j <= |B|; the tracker of a side is absent exactly
\* when the index is the length of the side and otherwise wraps the item at
\* that index; a call accepts only at (|A|, |B|).
C29_IndicesInRange == ForCallsOfReturned(IndicesInRange)

\* getCommonSequence accepted at the end of both sequences after a call that
\* reached the end of src before the end of dest, and a call reached by a skip
C29_Witness ==
    /\ Len(destSequence) >= 2
    /\ Len(srcSequence) >= 1
    /\ CommonFound
    /\ LET calls == CallsOf(CommonSequenceAccumulator)
       IN  /\ \E call \in calls : Accepts(call)
           /\ \E call \in calls :
                call.b_j = Undefined /\ call.a_i # Undefined /\ call.j = Len(srcSequence)
           /\ \E call \in calls : call.i >= 1 /\ call.j = 0

(***************************************************************************)
(* Folds against undefined                                                 *)
(***************************************************************************)
\* every pair with an undefined side that the accepted walk folds satisfies
\* matches of the accumulator
ZeroFoldsMatch(acc) ==
    LET walk == acceptedWalk(DestTrackers, SrcTrackers,
                             StepCall(-1, -1, Undefined, Undefined, acc))
    IN  walk # Undefined =>
            \A k \in 1..Len(walk.pairs) :
                (walk.pairs[k][1] = Undefined \/ walk.pairs[k][2] = Undefined)
                    => accumulatorMatches(acc, walk.pairs[k][1], walk.pairs[k][2])

\* C30: along the walk a query accepts, every item folded against undefined
\* (after the other side has ended, or bypassed by a skip) satisfies
\* acc.matches with undefined; a path with a fold that does not is rejected.
C30_ZeroFoldsMatch ==
    /\ ExistenceReturned => ZeroFoldsMatch(MatchSequenceAccumulator)
    /\ GroupedReturned => ZeroFoldsMatch(MatchAccumulateSequenceAccumulator)
    /\ CommonReturned => ZeroFoldsMatch(CommonSequenceAccumulator)

(***************************************************************************)
(* The shape of the list of matchAccumulateSequence                        *)
(***************************************************************************)
\* the src items that the accepted walk of matchAccumulateSequence pairs with
\* the dest item at position d, in the order of the walk
PairedAlongWalk(d) ==
    LET walk == acceptedWalk(DestTrackers, SrcTrackers,
                             StepCall(-1, -1, Undefined, Undefined,
                                      MatchAccumulateSequenceAccumulator))
        withD(pair) ==
            /\ pair[1] # Undefined
            /\ pair[2] # Undefined
            /\ pair[1].sequenceItem = destSequence[d]
        pairs == SelectSeq(walk.pairs, withD)
    IN  [k \in 1..Len(pairs) |-> pairs[k][2].sequenceItem]

\* the src items of all the groups, left to right
RECURSIVE FlatSrc(_, _)
FlatSrc(groups, g) ==
    IF g > Len(groups) THEN <<>>
    ELSE groups[g].matchedSrcItems \o FlatSrc(groups, g + 1)

\* C31: every list matchAccumulateSequence returns has exactly one group per
\* dest item, in dest order; the src list of a group is the src items its
\* dest item was paired with along the accepted walk, in order; and the src
\* positions never decrease from left to right.
C31_GroupedShape ==
    GroupedFound =>
        /\ Len(Groups) = Len(destSequence)
        /\ \A d \in 1..Len(destSequence) :
              /\ Groups[d].destItem = destSequence[d]
              /\ Groups[d].matchedSrcItems = PairedAlongWalk(d)
        /\ LET flat == FlatSrc(Groups, 1)
           IN  \A k \in 1..(Len(flat) - 1) : flat[k].ref <= flat[k + 1].ref

\* a list with an empty group, a group of one src item and a later group, from
\* a dest item that stayed for two src items
C31_Witness ==
    /\ GroupedFound
    /\ Len(Groups) >= 2
    /\ \E g \in 1..Len(Groups) : Groups[g].matchedSrcItems = <<>>
    /\ \E g \in 1..Len(Groups) : Len(Groups[g].matchedSrcItems) >= 2

(***************************************************************************)
(* A caller of accumulate: an accumulator of matchAccumulateSequence or of *)
(* getCommonSequence under a sequence of calls of accumulate, each on the  *)
(* accumulator the call before returned.                                   *)
(***************************************************************************)
\* most calls of accumulate in a row
MaxFolds == 3

\* the accumulator acc after `calls` calls, the last being
\* receiver.accumulate(dest, src)
Accumulation(acc, receiver, dest, src, calls) ==
    [acc |-> acc, receiver |-> receiver, dest |-> dest, src |-> src, calls |-> calls]

\* the items getCommon chooses from here: X*, {1,1}, X? and {1,2}, and a
\* second object with the fields of the first
FoldedCommonItems ==
    {SequenceItem(1, "c1", 0, {}), SequenceItem(2, "c2", 1, {1}),
     SequenceItem(3, "c3", 0, {1}), SequenceItem(4, "c4", 1, {2}),
     SequenceItem(5, "c1", 0, {})}

\* two dest and two src items for an accumulator of matchAccumulateSequence
GroupsFoldInputs ==
    /\ QueryInputs(FixedItems(SubSeq(ItemLabels, 1, 2)), FixedItems(SubSeq(ItemLabels, 1, 2)),
                   {}, Undefined)
    /\ accumulation = Accumulation(MatchAccumulateSequenceAccumulator,
                                   NotCalled, Undefined, Undefined, 0)

\* one dest and one src item and every getCommon over them, for an
\* accumulator of getCommonSequence
CommonFoldInputs ==
    /\ \E common \in [{<<0, 1>>, <<1, 0>>, <<1, 1>>} -> FoldedCommonItems \cup {Undefined}] :
            QueryInputs(FixedItems(SubSeq(ItemLabels, 1, 1)),
                        FixedItems(SubSeq(ItemLabels, 1, 1)), {},
                        [k \in (0..1) \X (0..1) |->
                            IF k = <<0, 0>> THEN Undefined ELSE common[k]])
    /\ accumulation = Accumulation(CommonSequenceAccumulator,
                                   NotCalled, Undefined, Undefined, 0)

InitAccumulate ==
    /\ memory = NotCalled
    /\ tracking = NotCalled
    /\ tupleAssignment = NotCalled
    /\ \/ GroupsFoldInputs
       \/ CommonFoldInputs

\* a tracker of the sequence, or undefined
TrackerOrUndefined(sequence) ==
    {Trackers(sequence)[k] : k \in 1..Len(sequence)} \cup {Undefined}

\* accumulation.acc = accumulation.acc.accumulate(dest, src)
CallAccumulate ==
    /\ accumulation.calls < MaxFolds
    /\ \E dest \in TrackerOrUndefined(destSequence), src \in TrackerOrUndefined(srcSequence) :
          /\ dest # Undefined \/ src # Undefined
          /\ accumulation' = Accumulation(accumulate(accumulation.acc, dest, src),
                                          accumulation.acc, dest, src,
                                          accumulation.calls + 1)
    /\ UNCHANGED <<destSequence, srcSequence, destMatchesSrc, getCommon,
                   matchSequenceResult, matchAccumulateSequenceResult,
                   getCommonSequenceResult, memory, tracking, tupleAssignment>>

NextAccumulate == CallAccumulate

SpecAccumulate == InitAccumulate /\ [][NextAccumulate]_vars

GroupsFolded ==
    /\ accumulation.calls > 0
    /\ accumulation.acc.kind = "MatchAccumulateSequenceAccumulator"

CommonFolded ==
    /\ accumulation.calls > 0
    /\ accumulation.acc.kind = "CommonSequenceAccumulator"

\* C32: accumulate(dest, src) with both present appends src to the last
\* group when that group's dest item is this dest item, and otherwise appends
\* the group <dest, [src]>; the earlier groups are unchanged.
C32_GroupsBothPresent ==
    (GroupsFolded /\ accumulation.dest # Undefined /\ accumulation.src # Undefined) =>
        LET before == accumulation.receiver.acc
            after == accumulation.acc.acc
            n == Len(before)
            dest == accumulation.dest.sequenceItem
            src == accumulation.src.sequenceItem
        IN  IF n > 0 /\ before[n].destItem = dest
            THEN /\ Len(after) = n
                 /\ SubSeq(after, 1, n - 1) = SubSeq(before, 1, n - 1)
                 /\ after[n] = DestItemMatches(dest, Append(before[n].matchedSrcItems, src))
            ELSE /\ Len(after) = n + 1
                 /\ SubSeq(after, 1, n) = before
                 /\ after[n + 1] = DestItemMatches(dest, <<src>>)

\* a new group appended for a dest item that an earlier group, not the last
\* one, is keyed to
C32_Witness ==
    /\ GroupsFolded
    /\ accumulation.dest # Undefined
    /\ accumulation.src # Undefined
    /\ Len(accumulation.receiver.acc) = 2
    /\ Len(accumulation.acc.acc) = 3
    /\ accumulation.acc.acc[1].destItem = accumulation.acc.acc[3].destItem

\* C33: accumulate(undefined, src) returns an accumulator with the value of
\* the receiver; accumulate(dest, undefined) appends the group <dest, []>
\* unless the last group is keyed to this dest item, and then the value is
\* the receiver's; so folding the same dest against undefined a second time
\* in a row changes nothing.
C33_GroupsOneAbsent ==
    GroupsFolded =>
        LET before == accumulation.receiver.acc
            after == accumulation.acc.acc
            n == Len(before)
        IN  /\ (accumulation.dest = Undefined /\ accumulation.src # Undefined)
                    => after = before
            /\ (accumulation.dest # Undefined /\ accumulation.src = Undefined) =>
                  /\ after = IF n > 0 /\ before[n].destItem = accumulation.dest.sequenceItem
                             THEN before
                             ELSE Append(before,
                                         DestItemMatches(accumulation.dest.sequenceItem, <<>>))
                  /\ accumulate(accumulation.acc, accumulation.dest, Undefined)
                        = accumulation.acc

\* a dest folded against undefined on a list whose last group, with src
\* items, is keyed to it
C33_Witness ==
    /\ GroupsFolded
    /\ accumulation.dest # Undefined
    /\ accumulation.src = Undefined
    /\ Len(accumulation.receiver.acc) = 2
    /\ accumulation.acc = accumulation.receiver
    /\ accumulation.acc.acc[2].matchedSrcItems # <<>>

\* C34: accumulate of the accumulator of getCommonSequence appends the item
\* of getCommon unless the item is repeated and is the entry before it, and
\* leaves the list unchanged then and when getCommon returns no item; no list
\* has two adjacent entries that are the same repeated item.
C34_CommonAccumulate ==
    CommonFolded =>
        LET before == accumulation.receiver.acc
            after == accumulation.acc.acc
            n == Len(before)
            common == commonOf(accumulation.dest, accumulation.src)
        IN  /\ after = IF common = Undefined THEN before
                       ELSE IF isRepeated(common) /\ n > 0 /\ before[n] = common THEN before
                       ELSE Append(before, common)
            /\ \A k \in 1..(Len(after) - 1) :
                    after[k] = after[k + 1] => ~isRepeated(after[k])

\* a repeated item left out after itself, the last of two entries
C34_Witness ==
    /\ CommonFolded
    /\ accumulation.calls = 3
    /\ accumulation.acc = accumulation.receiver
    /\ Len(accumulation.acc.acc) = 2
    /\ isRepeated(accumulation.acc.acc[2])
    /\ commonOf(accumulation.dest, accumulation.src) = accumulation.acc.acc[2]

(***************************************************************************)
(* SequenceItemMatchTracker on its own: the trackers a query stores for a  *)
(* sequence, and one of them advanced by matched() and asked               *)
(* hasMoreMatches().                                                       *)
(***************************************************************************)
MaxTrackedMatches == 2

MaxCounter == 3

\* the quantifiers of the tracked items: minMatches <= maxMatches when
\* maxMatches is present, maxMatches = 0 included
TrackedQuantifiers ==
    {q \in (0..MaxTrackedMatches) \X ({{}} \cup {{m} : m \in 0..MaxTrackedMatches}) :
        \A m \in q[2] : q[1] <= m}

\* sequences of one or two items over these quantifiers
TrackedSequences ==
    UNION {{[k \in 1..n |-> SequenceItem(k, ItemLabels[k], qs[k][1], qs[k][2])] :
                qs \in [1..n -> TrackedQuantifiers]} : n \in 1..2}

\* stored: the trackers made for the sequence; tracker: the tracker in hand;
\* receiver: the tracker matched() was last called on; more: the answers of
\* hasMoreMatches() on the tracker in hand
Tracking(stored, tracker, receiver, more) ==
    [stored |-> stored, tracker |-> tracker, receiver |-> receiver, more |-> more]

InitTrackers ==
    /\ memory = NotCalled
    /\ accumulation = NotCalled
    /\ tupleAssignment = NotCalled
    /\ \E sequence \in TrackedSequences :
          /\ QueryInputs(sequence, <<>>, {}, Undefined)
          /\ \E k \in 1..Len(sequence) :
                tracking = Tracking(Trackers(sequence), Trackers(sequence)[k], NotCalled, {})

\* tracking.tracker = tracking.tracker.matched()
CallMatched ==
    /\ tracking.tracker.matchesCounter < MaxCounter
    /\ tracking' = Tracking(tracking.stored, matched(tracking.tracker), tracking.tracker, {})
    /\ UNCHANGED <<destSequence, srcSequence, destMatchesSrc, getCommon,
                   matchSequenceResult, matchAccumulateSequenceResult,
                   getCommonSequenceResult, memory, accumulation, tupleAssignment>>

\* tracking.tracker.hasMoreMatches()
CallHasMoreMatches ==
    /\ tracking.more = {}
    /\ tracking' = Tracking(tracking.stored, tracking.tracker, tracking.receiver,
                            {hasMoreMatches(tracking.tracker)})
    /\ UNCHANGED <<destSequence, srcSequence, destMatchesSrc, getCommon,
                   matchSequenceResult, matchAccumulateSequenceResult,
                   getCommonSequenceResult, memory, accumulation, tupleAssignment>>

NextTrackers ==
    \/ CallMatched
    \/ CallHasMoreMatches

SpecTrackers == InitTrackers /\ [][NextTrackers]_vars

\* C35: hasMoreMatches() is true exactly when maxMatches is absent or the
\* counter is below maxMatches, for every maxMatches >= 0 and every counter;
\* matched() returns a tracker of the same item with the counter one higher,
\* and the tracker it was called on and the trackers stored for the sequence
\* (counter 0) are as they were.
C35_TrackerCounters ==
    tracking # NotCalled =>
        /\ \A answer \in tracking.more :
              answer <=> \/ tracking.tracker.sequenceItem.maxMatches = {}
                         \/ \E m \in tracking.tracker.sequenceItem.maxMatches :
                                tracking.tracker.matchesCounter < m
        /\ tracking.receiver # NotCalled =>
              /\ tracking.tracker.sequenceItem = tracking.receiver.sequenceItem
              /\ tracking.tracker.matchesCounter = tracking.receiver.matchesCounter + 1
        /\ tracking.stored = Trackers(destSequence)
        /\ \A k \in 1..Len(tracking.stored) : tracking.stored[k].matchesCounter = 0

\* the part of C35 that the code keeps: the same with maxMatches >= 1
TrackerCountersFromOne ==
    (tracking # NotCalled /\ tracking.tracker.sequenceItem.maxMatches # {0}) =>
        C35_TrackerCounters

(***************************************************************************)
(* The tuple matcher (tuples.ts): type arguments of a tuple, their         *)
(* conversion to sequence items, matchTupleTypeArgs with the memo of its   *)
(* callback, adjustTupleTypeArgs and assignTupleTypeArgsInternal.          *)
(***************************************************************************)
MaxTupleArgs == 2

MaxConvertedArgs == 2

MaxSubscriptLength == 2

\* a Type, by the fields the tuple matcher reads: category and name, and for
\* a type variable shared.kind, priv.subscript, priv.isUnpacked,
\* priv.isInUnion, priv.freeTypeVar, shared.boundType,
\* shared.mappedBoundType, shared.constraints and the flag Mapped; for a
\* tuple class priv.tupleTypeArgs, as [entries |-> the list]; for a union its
\* subtypes
PlainType(category, name) ==
    [category |-> category, name |-> name, kind |-> "", subscript |-> Undefined,
     isUnpacked |-> FALSE, isInUnion |-> FALSE, mapped |-> FALSE,
     freeTypeVar |-> Undefined, boundType |-> Undefined, mappedBoundType |-> Undefined,
     constraints |-> <<>>, tupleTypeArgs |-> Undefined, subtypes |-> {}]

\* TupleTypeArg { type, isUnbounded, isOptional }; an isOptional left out is
\* FALSE
TupleTypeArg(type, isUnbounded) ==
    [type |-> type, isUnbounded |-> isUnbounded, isOptional |-> FALSE]

ClassInstance(name) == PlainType("Class", name)

AnyType == PlainType("Any", "Any")

\* specializeTupleClass(tupleClass, typeArgs, true, isUnpacked) as an instance
TupleInstance(typeArgs, isUnpacked) ==
    [ClassInstance("tuple") EXCEPT !.tupleTypeArgs = [entries |-> typeArgs],
                                   !.isUnpacked = isUnpacked]

TypeVarType(name, kind, isUnpacked) ==
    [PlainType("TypeVar", name) EXCEPT !.kind = kind, !.isUnpacked = isUnpacked]

\* TypeVarType.cloneForUnpacked(type, isInUnion)
cloneForUnpacked(type, isInUnion) ==
    [type EXCEPT !.isUnpacked = TRUE, !.isInUnion = isInUnion]

\* a subscript of the type variable base: an index or a slice from or up to
\* an index, and the number of entries it stands for
Subscript(base, kind, index, length) ==
    [base |-> base, kind |-> kind, index |-> index, length |-> length]

\* the type variable of subscript.base with this subscript
Subscripted(subscript, isUnpacked) ==
    [subscript.base EXCEPT !.subscript = subscript, !.isUnpacked = isUnpacked]

isTypeVar(type) == type.category = "TypeVar"

isTypeVarTuple(type) == isTypeVar(type) /\ type.kind = "TypeVarTuple"

isUnpackedTypeVarTuple(type) == isTypeVarTuple(type) /\ type.isUnpacked /\ ~type.isInUnion

isAnyOrUnknown(type) == type.category \in {"Any", "Unknown"}

isClassInstance(type) == type.category = "Class"

isAnyUnknownOrObject(type) ==
    isAnyOrUnknown(type) \/ (isClassInstance(type) /\ type.name = "object")

isTupleClass(type) == type.name = "tuple"

isUnboundedTupleClass(type) ==
    /\ type.tupleTypeArgs # Undefined
    /\ \E k \in 1..Len(type.tupleTypeArgs.entries) :
            \/ type.tupleTypeArgs.entries[k].isUnbounded
            \/ isUnpackedTypeVarTuple(type.tupleTypeArgs.entries[k].type)

\* isTupleGradualForm(type, isAnyUnknownOrObject) when withObject, and
\* isTupleGradualForm(type) otherwise: tuple[Any, ...]
isTupleGradualForm(type, withObject) ==
    /\ isClassInstance(type)
    /\ isTupleClass(type)
    /\ type.tupleTypeArgs # Undefined
    /\ Len(type.tupleTypeArgs.entries) = 1
    /\ IF withObject THEN isAnyUnknownOrObject(type.tupleTypeArgs.entries[1].type)
       ELSE isAnyOrUnknown(type.tupleTypeArgs.entries[1].type)
    /\ type.tupleTypeArgs.entries[1].isUnbounded

\* isTypeSame(dest.type, src.type, ...)
isTypeSame(destType, srcType) == destType = srcType

isTypeVarSame(type1, type2) == type1 = type2

\* combineTypes(types): Any if one of them is Any or Unknown, the type if
\* they are all the same, and their union otherwise
combineTypes(types) ==
    LET subtypes == {types[k] : k \in 1..Len(types)}
    IN  IF \E t \in subtypes : isAnyOrUnknown(t)
        THEN CHOOSE t \in subtypes : isAnyOrUnknown(t)
        ELSE IF Cardinality(subtypes) = 1 THEN types[1]
        ELSE [PlainType("Union", "Union") EXCEPT !.subtypes = subtypes]

\* TypeVarTupleSubscript.length(subscript): the finite bound of a subscripted
\* binding
TypeVarTupleSubscriptLength(subscript) == subscript.length

\* TypeVarTupleSubscript.areAdjacent
areAdjacent(prevSubscript, currentSubscript) ==
    \/ /\ currentSubscript.kind = "Index"
       /\ prevSubscript.kind = "Index"
       /\ currentSubscript.index = prevSubscript.index + 1
    \/ /\ currentSubscript.kind = "Index"
       /\ prevSubscript.kind = "EndSlice"
       /\ currentSubscript.index = prevSubscript.index
    \/ /\ currentSubscript.kind = "StartSlice"
       /\ prevSubscript.kind = "Index"
       /\ currentSubscript.index = prevSubscript.index + 1

\* TypeVarTupleSubscript.isValidEnd
isValidEnd(subscript) ==
    (subscript.kind = "Index" /\ subscript.index < 0) \/ subscript.kind = "StartSlice"

\* TypeVarTupleSubscript.isValidStart
isValidStart(subscript) ==
    (subscript.kind = "Index" /\ subscript.index = 0) \/ subscript.kind = "EndSlice"

isIndeterminate(arg) ==
    /\ arg # Undefined
    /\ \/ arg.isUnbounded
       \/ isTypeVarTuple(arg.type)
       \/ (isClassInstance(arg.type) /\ isTupleClass(arg.type)
                /\ isUnboundedTupleClass(arg.type))

\* toSequenceItem that asks isIndeterminate before it looks at the subscript
toSequenceItemIndeterminateFirst(ref, arg) ==
    IF isIndeterminate(arg) THEN SequenceItem(ref, arg, 0, {})
    ELSE IF isTypeVar(arg.type) /\ arg.type.subscript # Undefined
    THEN SequenceItem(ref, arg, 0, {TypeVarTupleSubscriptLength(arg.type.subscript)})
    ELSE SequenceItem(ref, arg, 1, {1})

\* ref is the identity of the object returned
toSequenceItem(ref, arg) ==
    IF isTypeVar(arg.type) /\ arg.type.subscript # Undefined
    THEN SequenceItem(ref, arg, 0, {TypeVarTupleSubscriptLength(arg.type.subscript)})
    ELSE IF isIndeterminate(arg) THEN SequenceItem(ref, arg, 0, {})
    ELSE SequenceItem(ref, arg, 1, {1})

\* typeArgs.map(toSequenceItem)
toSequenceItems(typeArgs) == [k \in 1..Len(typeArgs) |-> toSequenceItem(k, typeArgs[k])]

\* isUniversal of matches
RECURSIVE isUniversal(_)
isUniversal(type) ==
    IF isAnyUnknownOrObject(type) \/ isTupleGradualForm(type, TRUE) THEN TRUE
    ELSE IF (isTypeVar(type) /\ type.kind = "TypeVar") \/ isUnpackedTypeVarTuple(type)
    THEN /\ (type.freeTypeVar = Undefined \/ isUniversal(type.freeTypeVar))
         /\ IF type.mapped
            THEN type.mappedBoundType = Undefined \/ isUniversal(type.mappedBoundType)
            ELSE type.boundType = Undefined \/ isUniversal(type.boundType)
         /\ \A k \in 1..Len(type.constraints) : isUniversal(type.constraints[k])
    ELSE FALSE

\* evaluator.assignType(dest, src) of the types here: a type to itself, and
\* Any to and from every type
assignType(destType, srcType) ==
    \/ destType = srcType
    \/ isAnyOrUnknown(destType)
    \/ isAnyOrUnknown(srcType)

\* toStr of matchTupleTypeArgs, as far as the key of the memo goes: the
\* printed type.type, in which isUnbounded does not show
toStr(type) == IF type = Undefined THEN Undefined ELSE type.type

\* one call of matches: the value returned and the closure after the call;
\* closure is what matches reads and writes outside itself in one call of
\* matchTupleTypeArgs: memo, as the set of its entries, and isContra
matchesTupleTypeArgs(closure, destType, srcType) ==
    LET originalDestType == IF closure.isContra THEN srcType ELSE destType
        originalSrcType == IF closure.isContra THEN destType ELSE srcType
        key == <<toStr(originalDestType), toStr(originalSrcType)>>
        isDestUniversalAndSrcUndetermined ==
            /\ isUniversal(originalDestType.type)
            /\ (~isIndeterminate(originalSrcType) \/ isUniversal(originalSrcType.type))
        res == /\ originalDestType # Undefined
               /\ originalSrcType # Undefined
               /\ \/ isDestUniversalAndSrcUndetermined
                  \/ assignType(originalDestType.type, originalSrcType.type)
    IN  IF \E entry \in closure.memo : entry.key = key
        THEN [res |-> (CHOOSE entry \in closure.memo : entry.key = key).res,
              closure |-> closure]
        ELSE [res |-> res,
              closure |-> [closure EXCEPT !.memo = @ \cup {[key |-> key, res |-> res]}]]

\* matches of MatchAccumulateSequenceAccumulator with matches of
\* matchTupleTypeArgs as its destMatchesSrc, which is called once both
\* trackers have more matches
matchesWithClosure(closure, destItem, srcItem) ==
    IF destItem # Undefined /\ srcItem # Undefined
    THEN IF hasMoreMatches(destItem) /\ hasMoreMatches(srcItem)
         THEN matchesTupleTypeArgs(closure, destItem.sequenceItem.item,
                                   srcItem.sequenceItem.item)
         ELSE [res |-> FALSE, closure |-> closure]
    ELSE [res |-> \/ (destItem = Undefined /\ srcItem = Undefined)
                  \/ (destItem = Undefined /\ srcItem # Undefined /\ isSkippable(srcItem))
                  \/ (destItem # Undefined /\ isSkippable(destItem) /\ srcItem = Undefined),
          closure |-> closure]

RECURSIVE stepWithClosure(_, _, _, _, _, _, _, _)
RECURSIVE forNextStepWithClosure(_, _, _, _, _, _, _, _, _, _)

\* the loop `for (const next_step of steps)` of step, from position n on,
\* with the closure handed from one candidate to the next
forNextStepWithClosure(a_sequence, b_sequence, i, j, a_i, b_j, acc, steps, n, closure) ==
    IF n > Len(steps) THEN [acc |-> Undefined, closure |-> closure]
    ELSE LET next_step == steps[n]
             step_res ==
                stepWithClosure(a_sequence, b_sequence,
                                next_step.a_step.index, next_step.b_step.index,
                                next_step.a_step.item, next_step.b_step.item,
                                nextAcc(a_sequence, b_sequence, i, j, a_i, b_j, acc, next_step),
                                closure)
         IN  IF step_res.acc # Undefined THEN step_res
             ELSE forNextStepWithClosure(a_sequence, b_sequence, i, j, a_i, b_j, acc,
                                         steps, n + 1, step_res.closure)

\* step of traverseAccumulateSequence for the accumulator of
\* matchAccumulateSequence, returning with the accumulator the closure of
\* destMatchesSrc as the calls have left it
stepWithClosure(a_sequence, b_sequence, i, j, a_i, b_j, acc, closure) ==
    LET i_next == i + 1
        j_next == j + 1
        a_i_next == IF i_next < Len(a_sequence) THEN At(a_sequence, i_next) ELSE Undefined
        b_j_next == IF j_next < Len(b_sequence) THEN At(b_sequence, j_next) ELSE Undefined
        matched_ij == matchesWithClosure(closure, a_i, b_j)
    IN  IF i >= 0 /\ j >= 0 /\ a_i = Undefined /\ b_j = Undefined THEN
            [acc |-> acc, closure |-> closure]
        ELSE IF i >= 0 /\ j >= 0 /\ a_i = Undefined /\ b_j # Undefined THEN
            IF isSkippable(b_j) /\ matched_ij.res
            THEN stepWithClosure(a_sequence, b_sequence, i, j_next, a_i, b_j_next,
                                 accumulate(acc, Undefined, b_j), matched_ij.closure)
            ELSE [acc |-> Undefined, closure |-> closure]
        ELSE IF i >= 0 /\ j >= 0 /\ a_i # Undefined /\ b_j = Undefined THEN
            IF isSkippable(a_i) /\ matched_ij.res
            THEN stepWithClosure(a_sequence, b_sequence, i_next, j, a_i_next, b_j,
                                 accumulate(acc, a_i, Undefined), matched_ij.closure)
            ELSE [acc |-> Undefined, closure |-> closure]
        ELSE IF i >= 0 /\ j >= 0 /\ ~matched_ij.res THEN
            [acc |-> Undefined, closure |-> matched_ij.closure]
        ELSE
            forNextStepWithClosure(
                a_sequence, b_sequence, i, j, matchedOpt(a_i), matchedOpt(b_j), acc,
                nextSteps(a_sequence, b_sequence, i, j, matchedOpt(a_i), matchedOpt(b_j)),
                1, IF i >= 0 /\ j >= 0 THEN matched_ij.closure ELSE closure)

\* matchTupleTypeArgs with constraints undefined: a new memo, and
\* matchAccumulateSequence over the converted lists
matchTupleTypeArgs(destTypeArgs, srcTypeArgs, isContra) ==
    LET step_res == stepWithClosure(Trackers(toSequenceItems(destTypeArgs)),
                                    Trackers(toSequenceItems(srcTypeArgs)),
                                    -1, -1, Undefined, Undefined,
                                    MatchAccumulateSequenceAccumulator,
                                    [memo |-> {}, isContra |-> isContra])
    IN  IF step_res.acc = Undefined THEN Undefined ELSE [value |-> step_res.acc.acc]

\* typeArgs.filter((arg) => !isIndeterminate(arg))
getBaseCase(typeArgs) == SelectSeq(typeArgs, LAMBDA arg : ~isIndeterminate(arg))

\* array.splice(start, deleteCount, ...items) for start >= 0: the array
\* after the call and the entries removed
splice(array, start, deleteCount, items) ==
    LET from == IF start > Len(array) THEN Len(array) ELSE start
        count == IF deleteCount < 0 THEN 0
                 ELSE IF deleteCount > Len(array) - from THEN Len(array) - from
                 ELSE deleteCount
    IN  [array |-> SubSeq(array, 1, from) \o items
                        \o SubSeq(array, from + count + 1, Len(array)),
         removed |-> SubSeq(array, from + 1, from + count)]

\* array.findIndex(test), -1 when no entry passes
findIndex(array, test(_)) ==
    LET hits == {k \in 1..Len(array) : test(array[k])}
    IN  IF hits = {} THEN -1 ELSE Min(hits) - 1

\* the state of the loop of combineSubscriptedTypeVars; startIndex -1 is
\* undefined
RECURSIVE combineLoop(_, _, _, _, _, _)
combineLoop(args, prevSubscript, startIndex, isUnbounded, isOptional, i) ==
    IF i > Len(args) THEN args
    ELSE
    LET currentArg == IF i < Len(args) THEN At(args, i) ELSE Undefined
        currentSubscript ==
            IF currentArg # Undefined /\ isTypeVar(currentArg.type)
            THEN currentArg.type.subscript ELSE Undefined
        sameAsPrev ==
            /\ prevSubscript # Undefined
            /\ currentSubscript # Undefined
            /\ isTypeVarSame(prevSubscript.base, currentSubscript.base)
        ofTypeVarTuple == currentArg # Undefined /\ isTypeVarTuple(currentSubscript.base)
        nextUnbounded == IF ofTypeVarTuple THEN currentArg.isUnbounded ELSE isUnbounded
        nextOptional == IF ofTypeVarTuple THEN currentArg.isOptional ELSE isOptional
    IN  IF sameAsPrev THEN
            IF areAdjacent(prevSubscript, currentSubscript)
            THEN combineLoop(args, currentSubscript, startIndex,
                             nextUnbounded, nextOptional, i + 1)
            ELSE combineLoop(args, Undefined, -1, nextUnbounded, nextOptional, i + 1)
        ELSE IF startIndex # -1 /\ prevSubscript # Undefined THEN
            combineLoop(
                IF isValidEnd(prevSubscript)
                THEN splice(args, startIndex, i - startIndex,
                            <<[type |-> prevSubscript.base, isUnbounded |-> isUnbounded,
                               isOptional |-> isOptional]>>).array
                ELSE args,
                Undefined, -1, isUnbounded, isOptional, i + 1)
        ELSE IF currentSubscript # Undefined THEN
            IF isValidStart(currentSubscript)
            THEN combineLoop(args, currentSubscript, i, nextUnbounded, nextOptional, i + 1)
            ELSE combineLoop(args, prevSubscript, startIndex,
                             nextUnbounded, nextOptional, i + 1)
        ELSE combineLoop(args, prevSubscript, startIndex, isUnbounded, isOptional, i + 1)

\* the array args after the call, which is also what the call returns
combineSubscriptedTypeVars(args) ==
    IF Len(args) = 0 THEN args ELSE combineLoop(args, Undefined, -1, FALSE, FALSE, 0)

\* while (srcTypeArgs.length < destTypeArgs.length) srcTypeArgs.splice(index, 0, entry)
RECURSIVE spliceUpTo(_, _, _, _)
spliceUpTo(array, index, entry, length) ==
    IF Len(array) < length
    THEN spliceUpTo(splice(array, index, 0, <<entry>>).array, index, entry, length)
    ELSE array

\* while (array.length > length && array[array.length - 1].isOptional) array.splice(array.length - 1, 1)
RECURSIVE dropOptional(_, _)
dropOptional(array, length) ==
    IF Len(array) > length /\ array[Len(array)].isOptional
    THEN dropOptional(SubSeq(array, 1, Len(array) - 1), length)
    ELSE array

\* adjustTupleTypeArgs: the value returned and the two arrays after the call.
\* thrown: destTypeArgs[srcVariadicIndex].type is read where the dest list,
\* or the src list it was cut to, has no entry at the index found in src at
\* the start, which is a TypeError; the arrays stay as the cuts left them.
adjustTupleTypeArgs(destTypeArgs, srcTypeArgs, isContra) ==
    LET destUnboundedOrVariadicIndex ==
            findIndex(destTypeArgs, LAMBDA t : t.isUnbounded \/ isTypeVarTuple(t.type))
        srcUnboundedIndex == findIndex(srcTypeArgs, LAMBDA t : t.isUnbounded)
        srcVariadicIndex == findIndex(srcTypeArgs, LAMBDA t : isTypeVarTuple(t.type))
        srcIsUnboundedAny ==
            srcUnboundedIndex >= 0 /\ isAnyOrUnknown(At(srcTypeArgs, srcUnboundedIndex).type)
        \* the source contains an unbounded Any: expand it to the dest length
        replicated ==
            spliceUpTo(srcTypeArgs, srcUnboundedIndex,
                       TupleTypeArg(At(srcTypeArgs, srcUnboundedIndex).type, TRUE),
                       Len(destTypeArgs))
        src1 ==
            IF ~srcIsUnboundedAny THEN srcTypeArgs
            ELSE IF Len(replicated) > Len(destTypeArgs)
            THEN splice(replicated, srcUnboundedIndex, 1, <<>>).array
            ELSE replicated
        \* the dest contains an unbounded Any: expand it to the source length
        expandDest(src) ==
            IF /\ destUnboundedOrVariadicIndex >= 0
               /\ At(destTypeArgs, destUnboundedOrVariadicIndex).isUnbounded
               /\ isAnyOrUnknown(At(destTypeArgs, destUnboundedOrVariadicIndex).type)
            THEN spliceUpTo(destTypeArgs, destUnboundedOrVariadicIndex,
                            At(destTypeArgs, destUnboundedOrVariadicIndex), Len(src))
            ELSE destTypeArgs
        \* the packaging of 1156-1255 on the lists as the cuts above left them
        package(dest3, src3) ==
            LET srcArgsToCapture == Len(src3) - Len(dest3) + 1
                destArgsToCapture == Len(dest3) - Len(src3) + 1
                contraAdjusts == isContra /\ srcVariadicIndex >= 0 /\ destArgsToCapture >= 0
                thrown ==
                    contraAdjusts /\ destArgsToCapture = 1 /\ srcVariadicIndex >= Len(dest3)
                skipAdjustment ==
                    destArgsToCapture = 1 /\ isTypeVarTuple(At(dest3, srcVariadicIndex).type)
                destRemoved == splice(dest3, srcVariadicIndex, destArgsToCapture, <<>>)
                dest4 ==
                    IF contraAdjusts /\ ~skipAdjustment
                    THEN splice(destRemoved.array, srcVariadicIndex, 0,
                                <<TupleTypeArg(TupleInstance(destRemoved.removed, TRUE),
                                               FALSE)>>).array
                    ELSE dest3
                packsForVariadic ==
                    /\ ~isContra
                    /\ destUnboundedOrVariadicIndex >= 0
                    /\ srcArgsToCapture >= 0
                    /\ isTypeVarTuple(At(dest3, destUnboundedOrVariadicIndex).type)
                srcRemoved ==
                    splice(src3, destUnboundedOrVariadicIndex, srcArgsToCapture, <<>>)
                variadicTuple(removedArgs) ==
                    IF Len(removedArgs) = 1 /\ isUnpackedTypeVarTuple(removedArgs[1].type)
                    THEN removedArgs[1].type
                    ELSE TupleInstance(removedArgs, TRUE)
                combines ==
                    /\ ~contraAdjusts
                    /\ ~packsForVariadic
                    /\ destUnboundedOrVariadicIndex >= 0
                    /\ srcArgsToCapture >= 0
                    /\ \/ srcUnboundedIndex < 0
                       \/ /\ srcUnboundedIndex >= destUnboundedOrVariadicIndex
                          /\ srcUnboundedIndex < destUnboundedOrVariadicIndex + srcArgsToCapture
                removedArgTypes(removedArgs) ==
                    [k \in 1..Len(removedArgs) |->
                        IF isTypeVar(removedArgs[k].type)
                                /\ isUnpackedTypeVarTuple(removedArgs[k].type)
                        THEN cloneForUnpacked(removedArgs[k].type, TRUE)
                        ELSE removedArgs[k].type]
                combined(types) == IF Len(types) > 0 THEN combineTypes(types) ELSE AnyType
                src4 ==
                    IF packsForVariadic
                    THEN splice(srcRemoved.array, destUnboundedOrVariadicIndex, 0,
                                <<TupleTypeArg(variadicTuple(srcRemoved.removed),
                                               FALSE)>>).array
                    ELSE IF combines
                    THEN splice(srcRemoved.array, destUnboundedOrVariadicIndex, 0,
                                <<TupleTypeArg(combined(removedArgTypes(srcRemoved.removed)),
                                               FALSE)>>).array
                    ELSE src3
            IN  IF thrown
                THEN [value |-> FALSE, dest |-> dest3, src |-> src3, thrown |-> TRUE]
                ELSE [value |-> Len(dest4) = Len(src4), dest |-> dest4, src |-> src4,
                      thrown |-> FALSE]
        \* the optional entries dropped from the end of the longer list
        trimDest(dest2, src3) == package(dropOptional(dest2, Len(src3)), src3)
        trimSrc(src, dest2) == trimDest(dest2, dropOptional(src, Len(dest2)))
    IN  IF srcUnboundedIndex >= 0 /\ ~srcIsUnboundedAny /\ destUnboundedOrVariadicIndex < 0
        THEN [value |-> FALSE, dest |-> destTypeArgs, src |-> srcTypeArgs, thrown |-> FALSE]
        ELSE trimSrc(src1, expandDest(src1))

\* "Handle special case when dest and src are exactly the same"
isTheSame(destTypeArgs, srcTypeArgs) ==
    /\ Len(destTypeArgs) = Len(srcTypeArgs)
    /\ \A i \in 1..Len(destTypeArgs) : isTypeSame(destTypeArgs[i].type, srcTypeArgs[i].type)

isTupleGradualFormSrcTypeArg(srcTypeArgs) ==
    /\ Len(srcTypeArgs) = 1
    /\ isAnyOrUnknown(srcTypeArgs[1].type)
    /\ srcTypeArgs[1].isUnbounded

\* the loop over the adjusted lists when no match of the full lists was
\* found, from argIndex on: a TypeVarTuple against tuple[Any, ...] returns
\* true, an entry that is not assignable returns false, and so does the end
\* of the loop
RECURSIVE assignAdjusted(_, _, _)
assignAdjusted(originalDestTypeArgs, originalSrcTypeArgs, argIndex) ==
    IF argIndex >= Len(originalSrcTypeArgs) THEN FALSE
    ELSE LET destArgType == At(originalDestTypeArgs, argIndex).type
             srcArgType == At(originalSrcTypeArgs, argIndex).type
         IN  IF /\ isTypeVarTuple(destArgType)
                /\ destArgType.isUnpacked
                /\ ~destArgType.isInUnion
                /\ isTupleGradualForm(srcArgType, FALSE)
             THEN TRUE
             ELSE IF ~assignType(destArgType, srcArgType) THEN FALSE
             ELSE assignAdjusted(originalDestTypeArgs, originalSrcTypeArgs, argIndex + 1)

\* assignTupleTypeArgsInternal with diag and constraints undefined: the value
\* returned and the caller's two arrays after the call; thrown when
\* adjustTupleTypeArgs throws
assignTupleTypeArgsInternal(destTupleTypeArgs, srcTupleTypeArgs, isContra) ==
    LET \* from 476 on, with the runs of subscripted entries combined
        assign(destTypeArgs, srcTypeArgs) ==
            LET doMatch(srcTypeArgsOrBaseCase) ==
                    matchTupleTypeArgs(destTypeArgs, srcTypeArgsOrBaseCase, isContra)
                \* the recheck of 519-523 against the base case of src
                recheck(srcTypeArgsBaseCase) ==
                    /\ ~isTupleGradualFormSrcTypeArg(srcTypeArgs)
                    /\ Len(srcTypeArgsBaseCase) < Len(srcTypeArgs)
                    /\ doMatch(srcTypeArgsBaseCase) = Undefined
                \* the loop of 611-686 over the lists as adjustTupleTypeArgs left
                \* them, which are the caller's lists
                fallback(adjusted) ==
                    [value |-> adjusted.value /\ assignAdjusted(adjusted.dest, adjusted.src, 0),
                     dest |-> IF isContra THEN adjusted.src ELSE adjusted.dest,
                     src |-> IF isContra THEN adjusted.dest ELSE adjusted.src,
                     thrown |-> adjusted.thrown]
            IN  IF isTheSame(destTypeArgs, srcTypeArgs)
                THEN [value |-> TRUE, dest |-> destTypeArgs, src |-> srcTypeArgs,
                      thrown |-> FALSE]
                ELSE IF doMatch(srcTypeArgs) # Undefined
                THEN [value |-> ~recheck(getBaseCase(srcTypeArgs)),
                      dest |-> destTypeArgs, src |-> srcTypeArgs, thrown |-> FALSE]
                ELSE IF isContra
                THEN fallback(adjustTupleTypeArgs(srcTypeArgs, destTypeArgs, isContra))
                ELSE fallback(adjustTupleTypeArgs(destTypeArgs, srcTypeArgs, isContra))
    IN  assign(combineSubscriptedTypeVars(destTupleTypeArgs),
               combineSubscriptedTypeVars(srcTupleTypeArgs))

IntArg == TupleTypeArg(ClassInstance("int"), FALSE)

\* *tuple[int, ...]
UnboundedIntArg == TupleTypeArg(ClassInstance("int"), TRUE)

\* *tuple[Any, ...]
UnboundedAnyArg == TupleTypeArg(AnyType, TRUE)

\* *Ts
UnpackedTs == TypeVarType("Ts", "TypeVarTuple", TRUE)

\* int, str, *tuple[int, ...], *tuple[Any, ...], *Ts, and Ts[0] and *Ts[1:],
\* which follow each other as a run that stands for *Ts
TupleArgs ==
    {IntArg, TupleTypeArg(ClassInstance("str"), FALSE), UnboundedIntArg, UnboundedAnyArg,
     TupleTypeArg(UnpackedTs, FALSE),
     TupleTypeArg(Subscripted(Subscript(UnpackedTs, "Index", 0, 1), FALSE), FALSE),
     TupleTypeArg(Subscripted(Subscript(UnpackedTs, "StartSlice", 1, MaxSubscriptLength), TRUE),
                  FALSE)}

TupleArgLists == UNION {[1..n -> TupleArgs] : n \in 0..MaxTupleArgs}

\* dest, src: the caller's two arrays; isContra: the flag Contravariant;
\* call: the function called and the arrays as they were handed to it;
\* result: the set of what it returned, empty when it threw
TupleAssignment(dest, src, isContra, call, result) ==
    [dest |-> dest, src |-> src, isContra |-> isContra, call |-> call, result |-> result]

InitTuples ==
    /\ memory = NotCalled
    /\ accumulation = NotCalled
    /\ tracking = NotCalled
    /\ QueryInputs(<<>>, <<>>, {}, Undefined)
    /\ \E dest \in TupleArgLists, src \in TupleArgLists, isContra \in BOOLEAN :
            tupleAssignment = TupleAssignment(dest, src, isContra, NotCalled, {})

\* matchTupleTypeArgs(evaluator, dest, src, undefined, flags, 0)
CallMatchTupleTypeArgs ==
    /\ tupleAssignment.call = NotCalled
    /\ tupleAssignment' =
          [tupleAssignment EXCEPT
              !.call = [function |-> "matchTupleTypeArgs", dest |-> tupleAssignment.dest,
                       src |-> tupleAssignment.src],
              !.result = {matchTupleTypeArgs(tupleAssignment.dest, tupleAssignment.src,
                                             tupleAssignment.isContra)}]
    /\ UNCHANGED <<destSequence, srcSequence, destMatchesSrc, getCommon,
                matchSequenceResult, matchAccumulateSequenceResult,
                getCommonSequenceResult, memory, accumulation, tracking>>

\* adjustTupleTypeArgs(evaluator, dest, src, flags)
CallAdjustTupleTypeArgs ==
    /\ tupleAssignment.call = NotCalled
    /\ \E adjusted \in {adjustTupleTypeArgs(tupleAssignment.dest, tupleAssignment.src,
                                              tupleAssignment.isContra)} :
           tupleAssignment' =
              TupleAssignment(adjusted.dest, adjusted.src, tupleAssignment.isContra,
                              [function |-> "adjustTupleTypeArgs", dest |-> tupleAssignment.dest,
                               src |-> tupleAssignment.src],
                              IF adjusted.thrown THEN {} ELSE {adjusted.value})
    /\ UNCHANGED <<destSequence, srcSequence, destMatchesSrc, getCommon,
                matchSequenceResult, matchAccumulateSequenceResult,
                getCommonSequenceResult, memory, accumulation, tracking>>

\* assignTupleTypeArgsInternal(evaluator, dest, src, undefined, undefined, flags, 0)
CallAssignTupleTypeArgsInternal ==
    /\ tupleAssignment.call = NotCalled
    /\ \E assigned \in {assignTupleTypeArgsInternal(tupleAssignment.dest,
                                                      tupleAssignment.src,
                                                      tupleAssignment.isContra)} :
           tupleAssignment' =
              TupleAssignment(assigned.dest, assigned.src, tupleAssignment.isContra,
                              [function |-> "assignTupleTypeArgsInternal", dest |-> tupleAssignment.dest,
                               src |-> tupleAssignment.src],
                              IF assigned.thrown THEN {} ELSE {assigned.value})
    /\ UNCHANGED <<destSequence, srcSequence, destMatchesSrc, getCommon,
                matchSequenceResult, matchAccumulateSequenceResult,
                getCommonSequenceResult, memory, accumulation, tracking>>

NextTuples ==
    \/ CallMatchTupleTypeArgs
    \/ CallAdjustTupleTypeArgs
    \/ CallAssignTupleTypeArgsInternal

SpecTuples == InitTuples /\ [][NextTuples]_vars

\* the arguments toSequenceItem is applied to: those of TupleArgs, a type
\* variable T, tuple[int, ...] and tuple[int] as entries, and T and Ts with a
\* subscript of every length, bounded and unbounded
ConvertedArgs ==
    TupleArgs
    \cup {TupleTypeArg(TypeVarType("T", "TypeVar", FALSE), FALSE),
          TupleTypeArg(TupleInstance(<<UnboundedIntArg>>, FALSE), FALSE),
          TupleTypeArg(TupleInstance(<<IntArg>>, FALSE), FALSE)}
    \cup {TupleTypeArg(Subscripted(Subscript(base, "Index", 0, length), FALSE), isUnbounded) :
            base \in {TypeVarType("T", "TypeVar", FALSE), UnpackedTs},
            length \in 0..MaxSubscriptLength, isUnbounded \in BOOLEAN}

\* typeArgs: a list of type arguments; items: typeArgs.map(toSequenceItem), as
\* [value |-> the list], once it is called
InitTupleItems ==
    /\ memory = NotCalled
    /\ accumulation = NotCalled
    /\ tracking = NotCalled
    /\ QueryInputs(<<>>, <<>>, {}, Undefined)
    /\ \E typeArgs \in UNION {[1..n -> ConvertedArgs] : n \in 1..MaxConvertedArgs} :
            tupleAssignment = [typeArgs |-> typeArgs, items |-> NotCalled]

\* typeArgs.map(toSequenceItem)
CallToSequenceItem ==
    /\ tupleAssignment.items = NotCalled
    /\ tupleAssignment' =
          [tupleAssignment EXCEPT
              !.items = [value |-> toSequenceItems(tupleAssignment.typeArgs)]]
    /\ UNCHANGED <<destSequence, srcSequence, destMatchesSrc, getCommon,
                matchSequenceResult, matchAccumulateSequenceResult,
                getCommonSequenceResult, memory, accumulation, tracking>>

NextTupleItems == CallToSequenceItem

SpecTupleItems == InitTupleItems /\ [][NextTupleItems]_vars

Converted == tupleAssignment # NotCalled /\ tupleAssignment.items # NotCalled

\* C36: toSequenceItem turns a type variable with a subscript into an item
\* {0, length of the subscript}, any other indeterminate argument (unbounded,
\* TypeVarTuple, or an unbounded tuple) into {0, absent} and a fixed argument
\* into {1, 1}; the item carries the argument, and minMatches <= maxMatches
\* when maxMatches is present.
C36_ToSequenceItem ==
    Converted =>
        \A k \in 1..Len(tupleAssignment.typeArgs) :
            LET arg == tupleAssignment.typeArgs[k]
                item == tupleAssignment.items.value[k]
                subscripted == arg.type.category = "TypeVar" /\ arg.type.subscript # Undefined
                indeterminate ==
                    \/ arg.isUnbounded
                    \/ (arg.type.category = "TypeVar" /\ arg.type.kind = "TypeVarTuple")
                    \/ arg.type = TupleInstance(<<UnboundedIntArg>>, FALSE)
            IN  /\ item.item = arg
                /\ subscripted =>
                        item.minMatches = 0 /\ item.maxMatches = {arg.type.subscript.length}
                /\ (~subscripted /\ indeterminate) =>
                        item.minMatches = 0 /\ item.maxMatches = {}
                /\ (~subscripted /\ ~indeterminate) =>
                        item.minMatches = 1 /\ item.maxMatches = {1}
                /\ \A m \in item.maxMatches : item.minMatches <= m

\* an unbounded argument whose type is a TypeVarTuple with a subscript of
\* length 2 became {0, 2}, next to tuple[int, ...], which became {0, absent}
C36_Witness ==
    /\ Converted
    /\ Len(tupleAssignment.typeArgs) = 2
    /\ tupleAssignment.typeArgs[1].isUnbounded
    /\ tupleAssignment.typeArgs[1].type.kind = "TypeVarTuple"
    /\ tupleAssignment.typeArgs[1].type.subscript # Undefined
    /\ tupleAssignment.typeArgs[1].type.subscript.length = 2
    /\ tupleAssignment.items.value[1].maxMatches = {2}
    /\ tupleAssignment.typeArgs[2].type = TupleInstance(<<UnboundedIntArg>>, FALSE)
    /\ tupleAssignment.items.value[2].maxMatches = {}

Assigned ==
    /\ tupleAssignment # NotCalled
    /\ tupleAssignment.call # NotCalled
    /\ tupleAssignment.call.function = "assignTupleTypeArgsInternal"

IndeterminateArg(arg) == arg.isUnbounded \/ arg.type.kind = "TypeVarTuple"

\* the full src list matches dest, src has an indeterminate argument and is
\* not *tuple[Any, ...] alone
RecheckApplies(dest, src) ==
    /\ matchTupleTypeArgs(dest, src, tupleAssignment.isContra) # Undefined
    /\ \E k \in 1..Len(src) : IndeterminateArg(src[k])
    /\ src # <<UnboundedAnyArg>>

\* dest matches src with every indeterminate argument removed
BaseCaseMatches(dest, src) ==
    matchTupleTypeArgs(dest, SelectSeq(src, LAMBDA arg : ~IndeterminateArg(arg)),
                       tupleAssignment.isContra) # Undefined

\* C37: when dest and src are not identical, the full src list matches dest,
\* src has an indeterminate argument and is not the single *tuple[Any, ...],
\* assignTupleTypeArgsInternal returns true if dest matches src with the
\* indeterminate arguments removed and false otherwise.
C37_BaseCaseRecheck ==
    (/\ Assigned
     /\ tupleAssignment.call.dest # tupleAssignment.call.src
     /\ RecheckApplies(tupleAssignment.call.dest, tupleAssignment.call.src)) =>
        tupleAssignment.result
            = {BaseCaseMatches(tupleAssignment.call.dest, tupleAssignment.call.src)}

\* the part of C37 that the code keeps: the same for lists that, with their
\* runs of subscripted entries combined, differ in length or in the type of
\* an argument
BaseCaseRecheckOfDifferentTypes ==
    Assigned =>
        LET dest == combineSubscriptedTypeVars(tupleAssignment.call.dest)
            src == combineSubscriptedTypeVars(tupleAssignment.call.src)
        IN  (/\ [k \in 1..Len(dest) |-> dest[k].type] # [k \in 1..Len(src) |-> src[k].type]
             /\ RecheckApplies(dest, src)) =>
                tupleAssignment.result = {BaseCaseMatches(dest, src)}

\* zero-or-more ints given to one-or-more ints is refused, one-or-more ints
\* given to zero-or-more ints is accepted
ZeroOrMoreAndOneOrMore ==
    Assigned =>
        /\ (/\ tupleAssignment.call.dest = <<UnboundedIntArg, IntArg>>
            /\ tupleAssignment.call.src = <<UnboundedIntArg>>)
                => tupleAssignment.result = {FALSE}
        /\ (/\ tupleAssignment.call.dest = <<UnboundedIntArg>>
            /\ tupleAssignment.call.src = <<UnboundedIntArg, IntArg>>)
                => tupleAssignment.result = {TRUE}
====
